---- MODULE Spec2Model ----
(***************************************************************************)
(* Tablerizer (GRINN-dev/tablerizer): a model of the configuration layer   *)
(* (src/src/config.ts), the SQL-generation layer (generators.ts, kept in   *)
(* src/unnamed/part_000) and the Tablerizer class (src/src/index.ts).      *)
(*                                                                         *)
(* Text is modelled as it is built: a string of the configuration layer is *)
(* a sequence of one-character strings, so that the regular expression of  *)
(* expandEnvVars and String.split are computed character by character.     *)
(***************************************************************************)
EXTENDS Integers, Sequences, FiniteSets, TLC

VARIABLES
    env,        \* process.env: variable name -> value (a name outside DOMAIN is unset)
    cfgFile,    \* the parsed JSON of the configuration file, or None without a file
    cliArgs,    \* the Partial<CliArgs> handed to resolveConfig
    loaded,     \* the last value returned by loadConfig (None before)
    resolved    \* the last value returned by resolveConfig (None before)

VARIABLES
    db,         \* the PostgreSQL catalog the instance reads: relations and functions
    options,    \* Tablerizer.options
    connection, \* Tablerizer.connection: 0 for null, else the id of a connection
    conns,      \* every connection createConnection has made: id -> its state
    calls,      \* the calls made on the instance: call id -> its frame
    disk        \* the files written under the output directory: filePath -> content

VARIABLES
    tableInput,   \* the TableData handed to generateTableSQL
    roleMappings, \* the role_mappings handed to it: a sequence of [role, placeholder]
    sqlContent,   \* the text generateTableSQL returned (<<>> before the call)
    psqlVars,     \* the value the deployment gives to each placeholder
    script,       \* the statements of the file that are still to be executed
    target,       \* the database the file is executed against
    runs          \* the outcome of each finished execution of the file

cfgVars == <<env, cfgFile, cliArgs, loaded, resolved>>

instVars == <<db, options, connection, conns, calls, disk>>

genVars == <<tableInput, roleMappings, sqlContent, psqlVars, script, target, runs>>

vars == <<cfgVars, instVars, genVars>>

----------------------------------------------------------------------------
(* JavaScript values: undefined is None, a defined value v is Some(v).     *)

None == [some |-> FALSE]
Some(v) == [some |-> TRUE, val |-> v]

\* JavaScript truthiness of an optional string: undefined and "" are falsy.
TruthyStr(o) == o.some /\ o.val # <<>>

\* JavaScript truthiness of an optional array or object: any defined one is truthy.
TruthyObj(o) == o.some

----------------------------------------------------------------------------
(* Characters.                                                             *)

UpperChars ==
    {"A","B","C","D","E","F","G","H","I","J","K","L","M",
     "N","O","P","Q","R","S","T","U","V","W","X","Y","Z"}

DigitChars == {"0","1","2","3","4","5","6","7","8","9"}

\* [A-Z_]
VarStartChars == UpperChars \cup {"_"}

\* [A-Z0-9_]
VarRestChars == UpperChars \cup DigitChars \cup {"_"}

\* String.prototype.includes for one character.
Includes(s, c) == \E i \in 1..Len(s) : s[i] = c

\* String.prototype.indexOf(c, from) on 1-based positions; 0 if absent.
IndexFrom(s, c, from) ==
    IF \E i \in from..Len(s) : s[i] = c
    THEN CHOOSE i \in from..Len(s) : s[i] = c /\ \A j \in from..(i-1) : s[j] # c
    ELSE 0

\* String.prototype.split(c): all the pieces between the occurrences of c.
RECURSIVE SplitAll(_, _)
SplitAll(s, c) ==
    LET i == IndexFrom(s, c, 1)
    IN  IF i = 0 THEN <<s>>
        ELSE <<SubSeq(s, 1, i-1)>> \o SplitAll(SubSeq(s, i+1, Len(s)), c)

\* String.prototype.split(c, limit): the pieces of split(c), cut to the first `limit'.
SplitLimit(s, c, limit) ==
    LET all == SplitAll(s, c)
    IN  IF Len(all) <= limit THEN all ELSE SubSeq(all, 1, limit)

\* String.prototype.trim (blanks only).
RECURSIVE Trim(_)
Trim(s) ==
    IF s = <<>> THEN s
    ELSE IF s[1] = " " THEN Trim(Tail(s))
    ELSE IF s[Len(s)] = " " THEN Trim(SubSeq(s, 1, Len(s)-1))
    ELSE s

\* value.split(",").map((s) => s.trim())
SplitCommaTrim(s) ==
    LET parts == SplitAll(s, ",")
    IN  [i \in 1..Len(parts) |-> Trim(parts[i])]

----------------------------------------------------------------------------
(* config.ts: expandEnvVars                                                *)

\* process.env[name]
GetEnv(name) == IF name \in DOMAIN env THEN Some(env[name]) ELSE None

\* \$\{([^}]+)\} at position i: the position of the closing brace, or 0.
BracedEnd(s, i) ==
    IF i + 3 <= Len(s) /\ s[i] = "$" /\ s[i+1] = "{" /\ s[i+2] # "}"
    THEN IndexFrom(s, "}", i+3)
    ELSE 0

\* [A-Z0-9_]* from position i on: the position of the last character matched.
RECURSIVE RunEnd(_, _)
RunEnd(s, i) ==
    IF i <= Len(s) /\ s[i] \in VarRestChars THEN RunEnd(s, i+1) ELSE i - 1

\* \$([A-Z_][A-Z0-9_]*) at position i: the position of its last character, or 0.
SimpleEnd(s, i) ==
    IF i + 1 <= Len(s) /\ s[i] = "$" /\ s[i+1] \in VarStartChars
    THEN RunEnd(s, i+2)
    ELSE 0

\* the default value of ${VAR:default}: the second piece of braced.split(":", 2)
BracedDefault(braced) == SplitLimit(braced, ":", 2)[2]

\* the variable name of ${VAR:default}: the first piece of braced.split(":", 2)
BracedName(braced) == SplitLimit(braced, ":", 2)[1]

\* the replacement callback of expandEnvVars for a ${...} match
ReplaceBraced(match, braced) ==
    IF Includes(braced, ":")
    THEN IF TruthyStr(GetEnv(BracedName(braced)))
         THEN GetEnv(BracedName(braced)).val
         ELSE BracedDefault(braced)
    ELSE IF TruthyStr(GetEnv(braced)) THEN GetEnv(braced).val ELSE match

\* the replacement callback of expandEnvVars for a $VAR match
ReplaceSimple(match, simple) ==
    IF TruthyStr(GetEnv(simple)) THEN GetEnv(simple).val ELSE match

\* value.replace(/\$\{([^}]+)\}|\$([A-Z_][A-Z0-9_]*)/g, callback) from position i
RECURSIVE ExpandFrom(_, _)
ExpandFrom(s, i) ==
    IF i > Len(s) THEN <<>>
    ELSE LET b == BracedEnd(s, i)
             e == SimpleEnd(s, i)
         IN  IF b > 0
             THEN ReplaceBraced(SubSeq(s, i, b), SubSeq(s, i+2, b-1))
                      \o ExpandFrom(s, b+1)
             ELSE IF e > 0
             THEN ReplaceSimple(SubSeq(s, i, e), SubSeq(s, i+1, e))
                      \o ExpandFrom(s, e+1)
             ELSE <<s[i]>> \o ExpandFrom(s, i+1)

expandEnvVars(value) == ExpandFrom(value, 1)

----------------------------------------------------------------------------
(* config.ts: expandConfigEnvVars, loadConfig                              *)
(*                                                                         *)
(* A Config is the record of its eight keys; a key missing from the JSON   *)
(* is None.  role_mappings is a function from key strings to values.       *)

\* expandConfigEnvVars on a string (or on undefined, returned as it is)
expandString(o) == IF o.some THEN Some(expandEnvVars(o.val)) ELSE o

\* expandConfigEnvVars on an array of strings: obj.map(expandConfigEnvVars)
expandArray(o) ==
    IF o.some
    THEN Some([i \in 1..Len(o.val) |-> expandEnvVars(o.val[i])])
    ELSE o

\* expandConfigEnvVars on an object of strings:
\*   for (const [key, value] of Object.entries(obj)) expanded[key] = expand(value)
expandObject(o) ==
    IF o.some
    THEN Some([key \in DOMAIN o.val |-> expandEnvVars(o.val[key])])
    ELSE o

\* expandConfigEnvVars on the Config object: every key kept, every value expanded
expandConfigEnvVars(obj) ==
    [schemas       |-> expandArray(obj.schemas),
     out           |-> expandString(obj.out),
     roles         |-> expandArray(obj.roles),
     database_url  |-> expandString(obj.database_url),
     role_mappings |-> expandObject(obj.role_mappings),
     scope         |-> expandString(obj.scope),
     include_date  |-> obj.include_date,
     clean         |-> obj.clean]

\* loadConfig(configPath) for a file that exists and parses to `json'
loadConfig(json) == expandConfigEnvVars(json)

\* {} as a Config
EmptyConfig ==
    [schemas |-> None, out |-> None, roles |-> None, database_url |-> None,
     role_mappings |-> None, scope |-> None, include_date |-> None,
     clean |-> None]

----------------------------------------------------------------------------
(* config.ts: resolveConfig                                                *)

STR_all == <<"a","l","l">>
STR_SCHEMAS == <<"S","C","H","E","M","A","S">>
STR_OUTPUT_DIR == <<"O","U","T","P","U","T","_","D","I","R">>
STR_ROLES == <<"R","O","L","E","S">>
STR_DATABASE_URL == <<"D","A","T","A","B","A","S","E","_","U","R","L">>

\* { ...a, ...b }
Spread(a, b) ==
    [k \in (DOMAIN a) \cup (DOMAIN b) |-> IF k \in DOMAIN b THEN b[k] ELSE a[k]]

\* "Start with config file values"
FromFile(config) ==
    [schemas       |-> IF TruthyObj(config.schemas) THEN config.schemas.val ELSE <<>>,
     out           |-> config.out,
     roles         |-> config.roles,
     database_url  |-> config.database_url,
     role_mappings |-> IF TruthyObj(config.role_mappings)
                       THEN config.role_mappings.val ELSE <<>>,
     scope         |-> IF TruthyStr(config.scope) THEN config.scope ELSE Some(STR_all),
     include_date  |-> config.include_date]

\* "Override with environment variables"
WithEnv(r) ==
    [r EXCEPT
       !.schemas = IF TruthyStr(GetEnv(STR_SCHEMAS)) /\ Len(r.schemas) = 0
                   THEN SplitCommaTrim(GetEnv(STR_SCHEMAS).val) ELSE @,
       !.out = IF TruthyStr(GetEnv(STR_OUTPUT_DIR)) /\ ~TruthyStr(r.out)
               THEN GetEnv(STR_OUTPUT_DIR) ELSE @,
       !.roles = IF TruthyStr(GetEnv(STR_ROLES)) /\ ~TruthyObj(r.roles)
                 THEN Some(SplitCommaTrim(GetEnv(STR_ROLES).val)) ELSE @,
       !.database_url = IF TruthyStr(GetEnv(STR_DATABASE_URL)) /\ ~TruthyStr(r.database_url)
                        THEN GetEnv(STR_DATABASE_URL) ELSE @]

\* WithCli with the guards of the environment step: a command-line value is
\* taken only for a setting that nothing has set yet
WithCliOnlyIfUnset(r, cli) ==
    [r EXCEPT
       !.schemas = IF TruthyObj(cli.schemas) /\ Len(cli.schemas.val) > 0 /\ Len(@) = 0
                   THEN cli.schemas.val ELSE @,
       !.out = IF TruthyStr(cli.out) /\ ~TruthyStr(@) THEN cli.out ELSE @,
       !.roles = IF TruthyObj(cli.roles) /\ ~TruthyObj(@) THEN cli.roles ELSE @,
       !.database_url = IF TruthyStr(cli.database_url) /\ ~TruthyStr(@)
                        THEN cli.database_url ELSE @]

\* "Override with CLI arguments (highest precedence)"
WithCli(r, cli) ==
    [r EXCEPT
       !.schemas = IF TruthyObj(cli.schemas) /\ Len(cli.schemas.val) > 0
                   THEN cli.schemas.val ELSE @,
       !.out = IF TruthyStr(cli.out) THEN cli.out ELSE @,
       !.roles = IF TruthyObj(cli.roles) THEN cli.roles ELSE @,
       !.database_url = IF TruthyStr(cli.database_url) THEN cli.database_url ELSE @,
       !.role_mappings = IF TruthyObj(cli.role_mappings)
                            /\ Cardinality(DOMAIN cli.role_mappings.val) > 0
                         THEN Spread(@, cli.role_mappings.val) ELSE @,
       !.scope = IF TruthyStr(cli.scope) THEN cli.scope ELSE @,
       !.include_date = IF cli.include_date.some THEN cli.include_date ELSE @]

\* resolveConfig(cliArgs, configPath): file is None when no configuration file
\* is given or found, and Some(json) otherwise
resolveConfig(cli, file) ==
    LET config == IF file.some THEN loadConfig(file.val) ELSE EmptyConfig
    IN  WithCli(WithEnv(FromFile(config)), cli)

----------------------------------------------------------------------------
(* config.ts: getDefaultConfig, mergeConfigs, validateConfig               *)
(*                                                                         *)
(* In the Tablerizer class names are not taken apart, so a name, a path    *)
(* or a URL is one TLA+ string.  A scope is [isArray, items]: the string   *)
(* "tables" is [isArray |-> FALSE, items |-> <<"tables">>].                *)

ScopeOf(name) == [isArray |-> FALSE, items |-> <<name>>]
ScopeArray(names) == [isArray |-> TRUE, items |-> names]

\* JavaScript truthiness of an optional name: undefined and "" are falsy
TruthyName(o) == o.some /\ o.val # ""

\* a Partial<TablerizerOptions> that sets nothing
NoOptions ==
    [schemas |-> None, out |-> None, roles |-> None, database_url |-> None,
     role_mappings |-> None, scope |-> None, include_date |-> None,
     clean |-> None]

getDefaultConfig ==
    [schemas       |-> Some(<<>>),
     out           |-> Some("./tables"),
     roles         |-> None,
     database_url  |-> None,
     role_mappings |-> Some(<<>>),
     scope         |-> Some(ScopeOf("all")),
     include_date  |-> Some(FALSE),
     clean         |-> Some(TRUE)]

\* a || b for two optional names
OrName(a, b) == IF TruthyName(a) THEN a ELSE b

\* a || b for two optional arrays or objects
OrObj(a, b) == IF TruthyObj(a) THEN a ELSE b

\* { ...base.role_mappings, ...override.role_mappings }
SpreadMappings(a, b) ==
    Spread(IF a.some THEN a.val ELSE <<>>, IF b.some THEN b.val ELSE <<>>)

\* mergeConfigs with include_date merged like the other options, with ||
mergeConfigsDateOr(base, override) ==
    [schemas       |-> OrObj(override.schemas, OrObj(base.schemas, Some(<<>>))),
     out           |-> OrName(override.out, OrName(base.out, Some("./tables"))),
     roles         |-> OrObj(override.roles, base.roles),
     database_url  |-> OrName(override.database_url, base.database_url),
     role_mappings |-> Some(SpreadMappings(base.role_mappings, override.role_mappings)),
     scope         |-> OrObj(override.scope, OrObj(base.scope, Some(ScopeOf("all")))),
     include_date  |-> IF override.include_date.some /\ override.include_date.val
                       THEN override.include_date
                       ELSE IF base.include_date.some THEN base.include_date
                       ELSE Some(FALSE),
     clean         |-> IF override.clean.some THEN override.clean
                       ELSE IF base.clean.some THEN base.clean
                       ELSE Some(TRUE)]

mergeConfigs(base, override) ==
    [schemas       |-> OrObj(override.schemas, OrObj(base.schemas, Some(<<>>))),
     out           |-> OrName(override.out, OrName(base.out, Some("./tables"))),
     roles         |-> OrObj(override.roles, base.roles),
     database_url  |-> OrName(override.database_url, base.database_url),
     role_mappings |-> Some(SpreadMappings(base.role_mappings, override.role_mappings)),
     scope         |-> OrObj(override.scope, OrObj(base.scope, Some(ScopeOf("all")))),
     include_date  |-> IF override.include_date.some THEN override.include_date
                       ELSE IF base.include_date.some THEN base.include_date
                       ELSE Some(FALSE),
     clean         |-> IF override.clean.some THEN override.clean
                       ELSE IF base.clean.some THEN base.clean
                       ELSE Some(TRUE)]

\* validateConfig: the message of the Error it throws, or "" when it returns
validateConfig(config) ==
    IF ~config.schemas.some \/ Len(config.schemas.val) = 0
    THEN "At least one schema must be specified"
    ELSE IF ~TruthyName(config.database_url)
    THEN "Database URL must be provided"
    ELSE IF \E i \in 1..Len(config.schemas.val) :
                config.schemas.val[i] \in {"", " "}
    THEN "Schema names cannot be empty"
    ELSE ""

----------------------------------------------------------------------------
(* index.ts: normalizeScope and the catalog queries                        *)

normalizeScope(scope) ==
    IF ~scope.some \/ scope.val = ScopeOf("all")
    THEN <<"tables", "functions">>
    ELSE scope.val.items

\* Array.prototype.includes
SeqIncludes(seq, x) == \E i \in 1..Len(seq) : seq[i] = x

\* every relation and function name of the model, in the order of ORDER BY
NameOrder ==
    <<"create_post", "get_user_post_count", "sales", "sales_2023",
      "user_secrets", "user_stats", "users">>

NameRank(n) == CHOOSE i \in 1..Len(NameOrder) : NameOrder[i] = n

\* the rows of a set, as a sequence sorted by the name under `key' (rows of
\* equal name in the order of their oid)
RECURSIVE SortedRows(_)
SortedRows(rows) ==
    IF rows = {} THEN <<>>
    ELSE LET first == CHOOSE r \in rows :
                        \A q \in rows :
                            \/ NameRank(r.name) < NameRank(q.name)
                            \/ NameRank(r.name) = NameRank(q.name) /\ r.oid <= q.oid
         IN  <<first>> \o SortedRows(rows \ {first})

\* getTables: SELECT c.relname ... WHERE c.relkind = 'r' AND n.nspname = $1
\*            ORDER BY c.relname
getTables(catalog, schema) ==
    LET rows == SortedRows({ r \in catalog.relations :
                               r.relkind = "r" /\ r.schema = schema })
    IN  [i \in 1..Len(rows) |-> rows[i].name]

\* getFunctions: SELECT ... FROM pg_proc p ... WHERE n.nspname = $1
\*               AND p.prokind IN ('f', 'p') ORDER BY p.proname
getFunctions(catalog, schema) ==
    SortedRows({ f \in catalog.functions :
                   f.schema = schema /\ f.prokind \in {"f", "p"} })

\* getTableData's first query: ... WHERE c.relkind = 'r' AND n.nspname = $1
\*                                 AND c.relname = $2
tableInfo(catalog, schema, tableName) ==
    { r \in catalog.relations :
        r.relkind = "r" /\ r.schema = schema /\ r.name = tableName }

\* getTableData, line 443: `Table ${schema}.${tableName} not found`
TableNotFound(schema, tableName) ==
    "Table " \o schema \o "." \o tableName \o " not found"

\* exportFunction, line 286: `Function ${schema}.${functionName} not found`
FunctionNotFound(schema, functionName) ==
    "Function " \o schema \o "." \o functionName \o " not found"

\* path.join(baseOutputDir, schema, kind, fileName), as its components
JoinPath(baseOutputDir, schema, kind, fileName) ==
    <<baseOutputDir, schema, kind, fileName>>

----------------------------------------------------------------------------
(* index.ts: the frames of the asynchronous methods of Tablerizer.         *)
(*                                                                         *)
(* A call is a frame; a frame's pc names the await it is suspended at.     *)
(* One action runs a method from one await to the next, as the event loop  *)
(* does, so calls on one instance interleave at their awaits only.         *)

MaxCalls == 3

\* no content yet
NoContent ==
    [type |-> "", schema |-> "", name |-> "", oid |-> 0,
     include_date |-> FALSE, roles |-> <<>>, role_mappings |-> <<>>]

NewFrame(op) ==
    [op |-> op, pc |-> "start", error |-> "", conn |-> 0, arg |-> NoOptions,
     name |-> "",
     scope |-> <<>>, baseOutputDir |-> "", schemas |-> <<>>, sIdx |-> 0,
     tables |-> <<>>, tIdx |-> 0, functions |-> <<>>, fIdx |-> 0,
     filePath |-> <<>>, content |-> NoContent,
     progressCounter |-> 0, totalItems |-> 0,
     files |-> <<>>, totalFiles |-> 0, tableFiles |-> 0, functionFiles |-> 0,
     progress |-> <<>>, result |-> None]

\* throw new Error(message): the call ends rejected
Throw(f, message) == [f EXCEPT !.pc = "done", !.error = message]

\* the schema the for loop of export is at
CurrentSchema(f) == f.schemas[f.sIdx]

exportTablesOf(f) == SeqIncludes(f.scope, "tables")
exportFunctionsOf(f) == SeqIncludes(f.scope, "functions")

\* a catalog query is issued: getTables and getFunctions throw without a
\* connection; the frame keeps the connection the query went to
Query(f, pc) ==
    IF connection = 0 THEN Throw(f, "Not connected to database")
    ELSE [f EXCEPT !.pc = pc, !.conn = connection]

\* export, lines 93-105: the output directory and the scope are read, then
\* await fs.mkdir(baseOutputDir)
Setup(f) ==
    [f EXCEPT !.baseOutputDir = IF TruthyName(options.out) THEN options.out.val
                                ELSE "./tables",
              !.scope = normalizeScope(options.scope),
              !.pc = "mkdirBase"]

\* export, lines 223-230: return { schemas, totalFiles, ... }
Return(f) ==
    [f EXCEPT !.pc = "done",
              !.result = Some([schemas |-> options.schemas.val,
                               totalFiles |-> f.totalFiles,
                               tableFiles |-> f.tableFiles,
                               functionFiles |-> f.functionFiles,
                               outputPath |-> f.baseOutputDir,
                               files |-> f.files])]

\* export, lines 107-109: the for loop takes schema k, or ends
EnterSchema(f, k) ==
    IF k > Len(f.schemas) THEN Return(f)
    ELSE [f EXCEPT !.sIdx = k, !.pc = "mkdirSchema"]

\* the content generateFunctionSQL returns, as the inputs it is made from
FunctionContent(func) ==
    [type |-> "function", schema |-> func.schema, name |-> func.name,
     oid |-> func.oid, include_date |-> options.include_date.val,
     roles |-> IF options.roles.some THEN options.roles.val ELSE <<>>,
     role_mappings |-> options.role_mappings.val]

\* the content generateTableSQL returns, as the inputs it is made from
TableContent(schema, tableName) ==
    [type |-> "table", schema |-> schema, name |-> tableName,
     oid |-> 0, include_date |-> options.include_date.val,
     roles |-> <<>>,
     role_mappings |-> options.role_mappings.val]

\* FunctionFileName without the loop: always name.sql
FunctionFileNamePlain(f, name, counter) ==
    JoinPath(f.baseOutputDir, CurrentSchema(f), "functions", <<name, 0>>)

\* export, lines 195-205: name.sql, or name_<counter>.sql for the first
\* counter whose path is not among the files of this export
RECURSIVE FunctionFileName(_, _, _)
FunctionFileName(f, name, counter) ==
    LET fileName == <<name, counter>>
        path == JoinPath(f.baseOutputDir, CurrentSchema(f), "functions", fileName)
    IN  IF \E i \in 1..Len(f.files) : f.files[i].filePath = path
        THEN FunctionFileName(f, name, counter + 1)
        ELSE path

\* EnterFunction with the functions numbered from 1 again, after the tables
EnterFunctionFromOne(f, k) ==
    IF k > Len(f.functions) THEN EnterSchema(f, f.sIdx + 1)
    ELSE LET func == f.functions[k]
         IN  [f EXCEPT !.fIdx = k,
                       !.progressCounter = k,
                       !.progress = Append(@, [schema |-> CurrentSchema(f),
                                               table |-> func.name,
                                               progress |-> k,
                                               total |-> f.totalItems]),
                       !.content = FunctionContent(func),
                       !.filePath = FunctionFileName(f, func.name, 0),
                       !.pc = "writeFunction"]

\* export, lines 174-207: the loop over the functions takes function k: the
\* progress callback, the content, the file name, then await fs.mkdir
EnterFunction(f, k) ==
    IF k > Len(f.functions) THEN EnterSchema(f, f.sIdx + 1)
    ELSE LET func == f.functions[k]
         IN  [f EXCEPT !.fIdx = k,
                       !.progressCounter = @ + 1,
                       !.progress = Append(@, [schema |-> CurrentSchema(f),
                                               table |-> func.name,
                                               progress |-> f.progressCounter + 1,
                                               total |-> f.totalItems]),
                       !.content = FunctionContent(func),
                       !.filePath = FunctionFileName(f, func.name, 0),
                       !.pc = "writeFunction"]

\* AfterTables without the test of the scope: the functions are exported
\* whatever the scope is
AfterTablesAnyScope(f) == Query(f, "listFunctions")

\* export, lines 171-172: the functions are exported after the tables
AfterTables(f) ==
    IF exportFunctionsOf(f) THEN Query(f, "listFunctions")
    ELSE EnterSchema(f, f.sIdx + 1)

\* export, lines 128-142: the loop over the tables takes table k: the
\* progress callback, then await this.getTableData(schema, table)
EnterTable(f, k) ==
    IF k > Len(f.tables) THEN AfterTables(f)
    ELSE Query([f EXCEPT !.tIdx = k,
                         !.progressCounter = @ + 1,
                         !.progress = Append(@, [schema |-> CurrentSchema(f),
                                                 table |-> f.tables[k],
                                                 progress |-> f.progressCounter + 1,
                                                 total |-> f.totalItems])],
               "tableData")

\* the entry export pushes on files for a file it has written
FileEntry(schema, name, type, filePath) ==
    [schema |-> schema, name |-> name, type |-> type, filePath |-> filePath]

\* fs.writeFile(filePath, content)
WriteFile(d, filePath, content) ==
    [q \in (DOMAIN d) \cup {filePath} |-> IF q = filePath THEN content ELSE d[q]]

----------------------------------------------------------------------------
(* The variables of a layer that a run of another layer leaves alone.      *)

ConfigIdle ==
    /\ env = <<>>
    /\ cfgFile = None
    /\ cliArgs = NoOptions
    /\ loaded = None
    /\ resolved = None

InstanceIdle ==
    /\ db = [relations |-> {}, functions |-> {}]
    /\ options = getDefaultConfig
    /\ connection = 0
    /\ conns = <<>>
    /\ calls = <<>>
    /\ disk = <<>>

GeneratorIdle ==
    /\ tableInput = <<>>
    /\ roleMappings = <<>>
    /\ sqlContent = <<>>
    /\ psqlVars = <<>>
    /\ script = <<>>
    /\ target = <<>>
    /\ runs = <<>>

----------------------------------------------------------------------------
(* The configuration runs: an environment, a configuration file and the    *)
(* command-line arguments are drawn, then loadConfig and resolveConfig run.*)

STR_DATABASE_VISITOR == <<"D","A","T","A","B","A","S","E","_","V","I","S","I","T","O","R">>
STR_tables == <<"t","a","b","l","e","s">>
STR_functions == <<"f","u","n","c","t","i","o","n","s">>

\* the values each source gives to each setting (all different, so that the
\* source a resolved value came from can be read off it)
EnvSchemas == <<"e","n","v","_","a",","," ","e","n","v","_","b">>
EnvOut == <<".","/","e","n","v","_","o","u","t">>
EnvRoles == <<"e","n","v","_","r","o","l","e">>
EnvUrl == <<"p","o","s","t","g","r","e","s",":","/","/","e","n","v">>
EnvVisitor == <<"c","a","p","_","v","i","s","i","t","o","r">>
FileSchemas == <<<<"f","i","l","e","_","s","c","h","e","m","a">>>>
FileOut == <<".","/","f","i","l","e","_","o","u","t">>
FileRoles == <<<<"f","i","l","e","_","r","o","l","e">>>>
FileUrl == <<"p","o","s","t","g","r","e","s",":","/","/","f","i","l","e">>
CliSchemas == <<<<"c","l","i","_","s","c","h","e","m","a">>>>
CliOut == <<".","/","c","l","i","_","o","u","t">>
CliRoles == <<<<"c","l","i","_","r","o","l","e">>>>
CliUrl == <<"p","o","s","t","g","r","e","s",":","/","/","c","l","i">>

\* strings of a configuration file that use the interpolation syntax
RefSimple == <<"$","D","A","T","A","B","A","S","E","_","V","I","S","I","T","O","R">>
RefBraced == <<"$","{","D","A","T","A","B","A","S","E","_","V","I","S","I","T","O","R","}">>
RefDefault == <<"$","{","D","A","T","A","B","A","S","E","_","V","I","S","I","T","O","R",":","v","i","s","i","t","o","r","}">>
RefDefaultColon == <<"$","{","D","A","T","A","B","A","S","E","_","V","I","S","I","T","O","R",":",":","D","A","T","A","B","A","S","E","_","A","D","M","I","N","}">>
RefDefaultEmpty == <<"$","{","D","A","T","A","B","A","S","E","_","V","I","S","I","T","O","R",":","}">>
RefOutDefault == <<"$","{","O","U","T","P","U","T","_","D","I","R",":",".","/","e","x","p","o","r","t","s","}">>
RefUrlDefault == <<"$","{","D","A","T","A","B","A","S","E","_","U","R","L",":","p","o","s","t","g","r","e","s",":","/","/","h",":","5","4","3","2","/","d","b","}">>
MappedRole == <<"m","y","a","p","p","_","a","d","m","i","n">>
Placeholder == <<":","D","A","T","A","B","A","S","E","_","V","I","S","I","T","O","R">>

\* the environments: each variable unset or set, DATABASE_VISITOR also set to ""
Environments ==
    { e \in UNION { [D -> {EnvSchemas, EnvOut, EnvRoles, EnvUrl, EnvVisitor, <<>>}] :
                      D \in SUBSET {STR_SCHEMAS, STR_OUTPUT_DIR, STR_ROLES,
                                    STR_DATABASE_URL, STR_DATABASE_VISITOR} } :
        /\ STR_SCHEMAS \in DOMAIN e => e[STR_SCHEMAS] = EnvSchemas
        /\ STR_OUTPUT_DIR \in DOMAIN e => e[STR_OUTPUT_DIR] = EnvOut
        /\ STR_ROLES \in DOMAIN e => e[STR_ROLES] = EnvRoles
        /\ STR_DATABASE_URL \in DOMAIN e => e[STR_DATABASE_URL] = EnvUrl
        /\ STR_DATABASE_VISITOR \in DOMAIN e => e[STR_DATABASE_VISITOR] \in {EnvVisitor, <<>>} }

\* role_mappings objects of a configuration file
FileRoleMappings ==
    { (RefSimple :> Placeholder),
      (MappedRole :> RefSimple),
      (MappedRole :> RefBraced),
      (MappedRole :> RefDefault),
      (MappedRole :> RefDefaultColon),
      (MappedRole :> RefDefaultEmpty) }

\* the configuration files: the four settings present or absent, out and
\* database_url also empty or with a default, and the role_mappings above
ConfigFiles ==
    { [EmptyConfig EXCEPT !.schemas = sc, !.out = o, !.roles = ro, !.database_url = u] :
        sc \in {None, Some(FileSchemas)}, o \in {None, Some(FileOut)},
        ro \in {None, Some(FileRoles)}, u \in {None, Some(FileUrl)} }
    \cup { [EmptyConfig EXCEPT !.out = o, !.database_url = u] :
        o \in {Some(<<>>), Some(RefOutDefault)}, u \in {None, Some(RefUrlDefault)} }
    \cup { [EmptyConfig EXCEPT !.role_mappings = Some(rm)] : rm \in FileRoleMappings }

\* the command lines, as parseCliArgs returns them (role_mappings always {})
CommandLines ==
    { [schemas |-> sc, out |-> o, roles |-> ro, database_url |-> u, scope |-> s,
       role_mappings |-> Some(<<>>), include_date |-> None] :
        sc \in {None, Some(CliSchemas)}, o \in {None, Some(CliOut)},
        ro \in {None, Some(CliRoles)}, u \in {None, Some(CliUrl)},
        s \in {None, Some(STR_tables)} }
    \cup { [schemas |-> Some(<<>>), out |-> Some(<<>>), roles |-> None,
            database_url |-> None, scope |-> None,
            role_mappings |-> None, include_date |-> None] }

InitConfig ==
    /\ env \in Environments
    /\ cfgFile \in {None} \cup { Some(f) : f \in ConfigFiles }
    /\ cliArgs \in CommandLines
    /\ loaded = None
    /\ resolved = None
    /\ InstanceIdle
    /\ GeneratorIdle

\* loadConfig(configPath) is called on the configuration file
LoadConfig ==
    /\ cfgFile.some
    /\ loaded' = Some(loadConfig(cfgFile.val))
    /\ UNCHANGED <<env, cfgFile, cliArgs, resolved>>
    /\ UNCHANGED <<instVars, genVars>>

\* resolveConfig(cliArgs, configPath) is called
ResolveConfig ==
    /\ resolved' = Some(resolveConfig(cliArgs, cfgFile))
    /\ UNCHANGED <<env, cfgFile, cliArgs, loaded>>
    /\ UNCHANGED <<instVars, genVars>>

NextConfig == LoadConfig \/ ResolveConfig

SpecConfig == InitConfig /\ [][NextConfig]_vars

----------------------------------------------------------------------------
(* Claims about the configuration layer.                                   *)

\* a setting is supplied by a source when the source gives it a usable value
SuppliedStr(o) == o.some /\ o.val # <<>>
SuppliedArr(o) == o.some /\ Len(o.val) > 0

\* the configuration file as loadConfig returns it ({} without a file)
FileConfig == IF cfgFile.some THEN loadConfig(cfgFile.val) ELSE EmptyConfig

\* C3: a setting given both by its environment variable and by the
\* configuration file, and not on the command line, resolves to the
\* environment variable's value (schemas, out, roles, database_url).
C3_EnvOverFile ==
    resolved.some =>
        /\ (SuppliedStr(GetEnv(STR_SCHEMAS)) /\ SuppliedArr(FileConfig.schemas)
                /\ ~SuppliedArr(cliArgs.schemas))
           => resolved.val.schemas = SplitCommaTrim(env[STR_SCHEMAS])
        /\ (SuppliedStr(GetEnv(STR_OUTPUT_DIR)) /\ SuppliedStr(FileConfig.out)
                /\ ~SuppliedStr(cliArgs.out))
           => resolved.val.out = Some(env[STR_OUTPUT_DIR])
        /\ (SuppliedStr(GetEnv(STR_ROLES)) /\ SuppliedArr(FileConfig.roles)
                /\ ~cliArgs.roles.some)
           => resolved.val.roles = Some(SplitCommaTrim(env[STR_ROLES]))
        /\ (SuppliedStr(GetEnv(STR_DATABASE_URL)) /\ SuppliedStr(FileConfig.database_url)
                /\ ~SuppliedStr(cliArgs.database_url))
           => resolved.val.database_url = Some(env[STR_DATABASE_URL])

\* C4: a setting supplied on the command line (non-empty schemas, out, roles,
\* database_url, scope) resolves to the command-line value, whatever the
\* environment and the configuration file hold.
C4_CliHighest ==
    resolved.some =>
        /\ SuppliedArr(cliArgs.schemas) => resolved.val.schemas = cliArgs.schemas.val
        /\ SuppliedStr(cliArgs.out) => resolved.val.out = cliArgs.out
        /\ cliArgs.roles.some => resolved.val.roles = cliArgs.roles
        /\ SuppliedStr(cliArgs.database_url)
           => resolved.val.database_url = cliArgs.database_url
        /\ SuppliedStr(cliArgs.scope) => resolved.val.scope = cliArgs.scope

\* C4 witness: resolveConfig has run with every setting given on the command
\* line, in the environment and in the configuration file at once.
C4_Witness ==
    /\ resolved.some
    /\ SuppliedArr(cliArgs.schemas) /\ SuppliedStr(cliArgs.out) /\ cliArgs.roles.some
    /\ SuppliedStr(cliArgs.database_url) /\ SuppliedStr(cliArgs.scope)
    /\ {STR_SCHEMAS, STR_OUTPUT_DIR, STR_ROLES, STR_DATABASE_URL} \subseteq DOMAIN env
    /\ SuppliedArr(FileConfig.schemas) /\ SuppliedStr(FileConfig.out)
    /\ SuppliedArr(FileConfig.roles) /\ SuppliedStr(FileConfig.database_url)
    /\ resolved.val.out = Some(CliOut)

\* a string of the form ${VAR:default}: one reference and nothing else
IsDefaultRef(s) ==
    /\ Len(s) >= 4 /\ s[1] = "$" /\ s[2] = "{" /\ s[Len(s)] = "}"
    /\ \A i \in 3..(Len(s)-1) : s[i] # "}"
    /\ \E i \in 3..(Len(s)-1) : s[i] = ":"

\* VAR of ${VAR:default}: the text before the first colon
RefName(s) == SubSeq(s, 3, IndexFrom(s, ":", 3) - 1)

\* default of ${VAR:default}: the whole text after the first colon
RefDefaultText(s) == SubSeq(s, IndexFrom(s, ":", 3) + 1, Len(s) - 1)

\* what ${VAR:default} is documented to expand to
DocumentedExpansion(s) ==
    IF SuppliedStr(GetEnv(RefName(s))) THEN env[RefName(s)] ELSE RefDefaultText(s)

\* C9: in a loaded configuration, ${VAR:default} has become the value of VAR
\* if VAR is set and non-empty, and otherwise the whole default text after
\* the first colon (colons of the default included, the empty default too).
C9_DefaultExpansion ==
    (loaded.some /\ cfgFile.some) =>
        /\ (cfgFile.val.out.some /\ IsDefaultRef(cfgFile.val.out.val))
           => loaded.val.out = Some(DocumentedExpansion(cfgFile.val.out.val))
        /\ (cfgFile.val.database_url.some /\ IsDefaultRef(cfgFile.val.database_url.val))
           => loaded.val.database_url
                 = Some(DocumentedExpansion(cfgFile.val.database_url.val))
        /\ cfgFile.val.role_mappings.some =>
             \A k \in DOMAIN cfgFile.val.role_mappings.val :
                IsDefaultRef(cfgFile.val.role_mappings.val[k])
                => /\ k \in DOMAIN loaded.val.role_mappings.val
                   /\ loaded.val.role_mappings.val[k]
                        = DocumentedExpansion(cfgFile.val.role_mappings.val[k])

\* C10: loadConfig expands the environment-variable references in the keys of
\* role_mappings as it does in the values: the keys of the loaded
\* role_mappings are the expansions of the keys written in the file.
C10_KeysExpanded ==
    (loaded.some /\ cfgFile.some /\ cfgFile.val.role_mappings.some) =>
        DOMAIN loaded.val.role_mappings.val
            = { expandEnvVars(k) : k \in DOMAIN cfgFile.val.role_mappings.val }

----------------------------------------------------------------------------
(* The Tablerizer runs: an instance is constructed over a database, then   *)
(* configure, connect, disconnect and export are called on it.             *)

\* the relations of the test database (test/README.md): an ordinary table, a
\* partitioned table with one partition, a materialized view, and a table
\* of a second schema
Rel(schema, name, relkind, relispartition) ==
    [schema |-> schema, name |-> name, oid |-> 0, relkind |-> relkind,
     relispartition |-> relispartition]

Func(schema, name, oid) ==
    [schema |-> schema, name |-> name, oid |-> oid, prokind |-> "f"]

Users == Rel("app_public", "users", "r", FALSE)
Sales == Rel("app_public", "sales", "p", FALSE)
Sales2023 == Rel("app_public", "sales_2023", "r", TRUE)
UserStats == Rel("app_public", "user_stats", "m", FALSE)
UserSecrets == Rel("app_private", "user_secrets", "r", FALSE)

\* the catalogs: a partition only with its parent; an overloaded function
Databases ==
    { [relations |-> rs, functions |-> fs] :
        rs \in { {}, {Users, UserSecrets}, {Users, Sales, Sales2023},
                 {Users, Sales, Sales2023, UserStats, UserSecrets} },
        fs \in { {}, {Func("app_public", "create_post", 1)},
                 {Func("app_public", "get_user_post_count", 1),
                  Func("app_public", "get_user_post_count", 2)} } }

\* the scopes a caller can configure
Scopes ==
    { ScopeOf("tables"), ScopeOf("functions"), ScopeOf("all"),
      ScopeOf("materialized-views"), ScopeArray(<<"tables", "functions">>) }

\* the options handed to the constructor
ConstructorOptions ==
    { [NoOptions EXCEPT !.schemas = Some(<<"app_public">>),
                        !.database_url = Some("postgres://test"),
                        !.out = Some("./out")],
      [NoOptions EXCEPT !.schemas = Some(<<"app_public", "app_private">>),
                        !.database_url = Some("postgres://test"),
                        !.out = Some("./out")],
      [NoOptions EXCEPT !.schemas = Some(<<"app_public">>)],
      [NoOptions EXCEPT !.database_url = Some("postgres://test")] }

Init ==
    /\ ConfigIdle
    /\ GeneratorIdle
    /\ db \in Databases
    /\ \E o \in ConstructorOptions : options = mergeConfigs(getDefaultConfig, o)
    /\ connection = 0
    /\ conns = <<>>
    /\ calls = <<>>
    /\ disk = <<>>

\* the options a caller hands to configure: a scope, or include_date
ConfigureOptions ==
    { [NoOptions EXCEPT !.scope = Some(sc)] : sc \in Scopes }
        \cup { [NoOptions EXCEPT !.include_date = Some(b)] : b \in BOOLEAN }

\* configure(options); the frame keeps the argument of the call
Configure ==
    /\ Len(calls) < MaxCalls
    /\ \E o \in ConfigureOptions :
          /\ options' = mergeConfigs(options, o)
          /\ calls' = Append(calls, [NewFrame("configure") EXCEPT !.pc = "done", !.arg = o])
    /\ UNCHANGED <<db, connection, conns, disk>>
    /\ UNCHANGED <<cfgVars, genVars>>

\* connect(): the connection is created and assigned, then await connect()
ConnectStart ==
    /\ Len(calls) < MaxCalls
    /\ IF ~TruthyName(options.database_url)
       THEN /\ calls' = Append(calls, Throw(NewFrame("connect"),
                                  "Database connection string is required"))
            /\ UNCHANGED <<connection, conns>>
       ELSE /\ conns' = Append(conns, "connecting")
            /\ connection' = Len(conns) + 1
            /\ calls' = Append(calls, [NewFrame("connect") EXCEPT
                                          !.pc = "connect", !.conn = Len(conns) + 1])
    /\ UNCHANGED <<db, options, disk>>
    /\ UNCHANGED <<cfgVars, genVars>>

\* connect() resumes: the client is connected
ConnectDone(i) ==
    /\ calls[i].op = "connect" /\ calls[i].pc = "connect"
    /\ conns' = [conns EXCEPT ![calls[i].conn] = IF @ = "connecting" THEN "open" ELSE @]
    /\ calls' = [calls EXCEPT ![i].pc = "done"]
    /\ UNCHANGED <<db, options, connection, disk>>
    /\ UNCHANGED <<cfgVars, genVars>>

\* disconnect(): with a connection, await this.connection.disconnect()
DisconnectStart ==
    /\ Len(calls) < MaxCalls
    /\ calls' = Append(calls,
                       IF connection # 0
                       THEN [NewFrame("disconnect") EXCEPT
                                !.pc = "disconnect", !.conn = connection]
                       ELSE [NewFrame("disconnect") EXCEPT !.pc = "done"])
    /\ UNCHANGED <<db, options, connection, conns, disk>>
    /\ UNCHANGED <<cfgVars, genVars>>

\* DisconnectDone without this.connection = null
DisconnectDoneKeeps(i) ==
    /\ calls[i].op = "disconnect" /\ calls[i].pc = "disconnect"
    /\ conns' = [conns EXCEPT ![calls[i].conn] = "closed"]
    /\ calls' = [calls EXCEPT ![i].pc = "done"]
    /\ UNCHANGED <<db, options, connection, disk>>
    /\ UNCHANGED <<cfgVars, genVars>>

\* disconnect() resumes: the client has ended, this.connection = null
DisconnectDone(i) ==
    /\ calls[i].op = "disconnect" /\ calls[i].pc = "disconnect"
    /\ conns' = [conns EXCEPT ![calls[i].conn] = "closed"]
    /\ connection' = 0
    /\ calls' = [calls EXCEPT ![i].pc = "done"]
    /\ UNCHANGED <<db, options, disk>>
    /\ UNCHANGED <<cfgVars, genVars>>

\* export(): validateConfig, then the connection is made if there is none
ExportStart ==
    /\ Len(calls) < MaxCalls
    /\ LET f == NewFrame("export")
           invalid == validateConfig(options)
       IN  IF invalid # ""
           THEN /\ calls' = Append(calls, Throw(f, invalid))
                /\ UNCHANGED <<connection, conns>>
           ELSE IF connection = 0
           THEN /\ conns' = Append(conns, "connecting")
                /\ connection' = Len(conns) + 1
                /\ calls' = Append(calls, [f EXCEPT !.pc = "connect",
                                                    !.conn = Len(conns) + 1])
           ELSE /\ calls' = Append(calls, Setup(f))
                /\ UNCHANGED <<connection, conns>>
    /\ UNCHANGED <<db, options, disk>>
    /\ UNCHANGED <<cfgVars, genVars>>

\* export resumes from await this.connect()
ExportConnected(i) ==
    /\ calls[i].op = "export" /\ calls[i].pc = "connect"
    /\ conns' = [conns EXCEPT ![calls[i].conn] = IF @ = "connecting" THEN "open" ELSE @]
    /\ calls' = [calls EXCEPT ![i] = Setup(calls[i])]
    /\ UNCHANGED <<db, options, connection, disk>>
    /\ UNCHANGED <<cfgVars, genVars>>

\* export resumes from await fs.mkdir(baseOutputDir): the loop over
\* this.options.schemas begins
ExportMkdirBase(i) ==
    /\ calls[i].op = "export" /\ calls[i].pc = "mkdirBase"
    /\ calls' = [calls EXCEPT ![i] =
                    EnterSchema([calls[i] EXCEPT !.schemas = options.schemas.val], 1)]
    /\ UNCHANGED <<db, options, connection, conns, disk>>
    /\ UNCHANGED <<cfgVars, genVars>>

\* export resumes from await fs.mkdir(schemaOutputDir): the items are counted
ExportMkdirSchema(i) ==
    /\ calls[i].op = "export" /\ calls[i].pc = "mkdirSchema"
    /\ LET f == [calls[i] EXCEPT !.progressCounter = 0, !.totalItems = 0]
       IN  calls' = [calls EXCEPT ![i] =
                        IF exportTablesOf(f) THEN Query(f, "countTables")
                        ELSE IF exportFunctionsOf(f) THEN Query(f, "countFunctions")
                        ELSE EnterSchema(f, f.sIdx + 1)]
    /\ UNCHANGED <<db, options, connection, conns, disk>>
    /\ UNCHANGED <<cfgVars, genVars>>

\* a query sent to a connection that has been closed since is rejected
QueryFailed(i) ==
    /\ calls[i].op = "export"
    /\ calls[i].pc \in {"countTables", "countFunctions", "listTables",
                        "listFunctions", "tableData"}
    /\ conns[calls[i].conn] = "closed"
    /\ calls' = [calls EXCEPT ![i] = Throw(calls[i], "Connection terminated")]
    /\ UNCHANGED <<db, options, connection, conns, disk>>
    /\ UNCHANGED <<cfgVars, genVars>>

\* export resumes from the first await this.getTables(schema)
ExportCountTables(i) ==
    /\ calls[i].op = "export" /\ calls[i].pc = "countTables"
    /\ conns[calls[i].conn] # "closed"
    /\ LET f == [calls[i] EXCEPT
                    !.totalItems = @ + Len(getTables(db, CurrentSchema(calls[i])))]
       IN  calls' = [calls EXCEPT ![i] =
                        IF exportFunctionsOf(f) THEN Query(f, "countFunctions")
                        ELSE Query(f, "listTables")]
    /\ UNCHANGED <<db, options, connection, conns, disk>>
    /\ UNCHANGED <<cfgVars, genVars>>

\* export resumes from the first await this.getFunctions(schema)
ExportCountFunctions(i) ==
    /\ calls[i].op = "export" /\ calls[i].pc = "countFunctions"
    /\ conns[calls[i].conn] # "closed"
    /\ LET f == [calls[i] EXCEPT
                    !.totalItems = @ + Len(getFunctions(db, CurrentSchema(calls[i])))]
       IN  calls' = [calls EXCEPT ![i] =
                        IF exportTablesOf(f) THEN Query(f, "listTables")
                        ELSE Query(f, "listFunctions")]
    /\ UNCHANGED <<db, options, connection, conns, disk>>
    /\ UNCHANGED <<cfgVars, genVars>>

\* export resumes from the second await this.getTables(schema)
ExportListTables(i) ==
    /\ calls[i].op = "export" /\ calls[i].pc = "listTables"
    /\ conns[calls[i].conn] # "closed"
    /\ calls' = [calls EXCEPT ![i] =
                    EnterTable([calls[i] EXCEPT
                        !.tables = getTables(db, CurrentSchema(calls[i]))], 1)]
    /\ UNCHANGED <<db, options, connection, conns, disk>>
    /\ UNCHANGED <<cfgVars, genVars>>

\* export resumes from await this.getTableData(schema, table): the SQL is
\* generated and written, the file is counted, the next table is taken
ExportTableData(i) ==
    /\ calls[i].op = "export" /\ calls[i].pc = "tableData"
    /\ conns[calls[i].conn] # "closed"
    /\ LET f == calls[i]
           schema == CurrentSchema(f)
           tableName == f.tables[f.tIdx]
           filePath == JoinPath(f.baseOutputDir, schema, "tables", <<tableName, 0>>)
       IN  IF tableInfo(db, schema, tableName) = {}
           THEN /\ calls' = [calls EXCEPT ![i] =
                                Throw(f, TableNotFound(schema, tableName))]
                /\ UNCHANGED disk
           ELSE /\ disk' = WriteFile(disk, filePath, TableContent(schema, tableName))
                /\ calls' = [calls EXCEPT ![i] =
                      EnterTable([f EXCEPT
                          !.files = Append(@, FileEntry(schema, tableName, "table", filePath)),
                          !.totalFiles = @ + 1,
                          !.tableFiles = @ + 1], f.tIdx + 1)]
    /\ UNCHANGED <<db, options, connection, conns>>
    /\ UNCHANGED <<cfgVars, genVars>>

\* export resumes from the second await this.getFunctions(schema)
ExportListFunctions(i) ==
    /\ calls[i].op = "export" /\ calls[i].pc = "listFunctions"
    /\ conns[calls[i].conn] # "closed"
    /\ calls' = [calls EXCEPT ![i] =
                    EnterFunction([calls[i] EXCEPT
                        !.functions = getFunctions(db, CurrentSchema(calls[i]))], 1)]
    /\ UNCHANGED <<db, options, connection, conns, disk>>
    /\ UNCHANGED <<cfgVars, genVars>>

\* export resumes from await fs.mkdir(path.dirname(filePath)) of a function:
\* the file is written and counted, the next function is taken
ExportWriteFunction(i) ==
    /\ calls[i].op = "export" /\ calls[i].pc = "writeFunction"
    /\ LET f == calls[i]
           func == f.functions[f.fIdx]
       IN  /\ disk' = WriteFile(disk, f.filePath, f.content)
           /\ calls' = [calls EXCEPT ![i] =
                 EnterFunction([f EXCEPT
                     !.files = Append(@, FileEntry(CurrentSchema(f), func.name,
                                                   "function", f.filePath)),
                     !.totalFiles = @ + 1,
                     !.functionFiles = @ + 1], f.fIdx + 1)]
    /\ UNCHANGED <<db, options, connection, conns>>
    /\ UNCHANGED <<cfgVars, genVars>>

Next ==
    \/ Configure
    \/ ConnectStart
    \/ DisconnectStart
    \/ ExportStart
    \/ \E i \in 1..Len(calls) :
          \/ ConnectDone(i)
          \/ DisconnectDone(i)
          \/ ExportConnected(i)
          \/ ExportMkdirBase(i)
          \/ ExportMkdirSchema(i)
          \/ QueryFailed(i)
          \/ ExportCountTables(i)
          \/ ExportCountFunctions(i)
          \/ ExportListTables(i)
          \/ ExportTableData(i)
          \/ ExportListFunctions(i)
          \/ ExportWriteFunction(i)

Spec == Init /\ [][Next]_vars

----------------------------------------------------------------------------
(* Claims about export().                                                  *)

\* the export calls that have returned a result
Returned == { i \in 1..Len(calls) : calls[i].op = "export" /\ calls[i].result.some }

\* the number of entries of a given type in a files array
CountType(files, type) ==
    Cardinality({ k \in 1..Len(files) : files[k].type = type })

\* the entries of a files array for one relation or function name of a schema
EntriesFor(files, schema, name) ==
    { k \in 1..Len(files) : files[k].schema = schema /\ files[k].name = name }

\* the schemas an export went through
SchemasOf(f) == { f.schemas[k] : k \in 1..Len(f.schemas) }

C7_PartitionedParents ==
    \A i \in Returned :
        LET f == calls[i]
            r == f.result.val
        IN  SeqIncludes(f.scope, "tables") =>
              \A rel \in db.relations :
                 rel.schema \in SchemasOf(f) =>
                    /\ rel.relkind = "p"
                       => Cardinality(EntriesFor(r.files, rel.schema, rel.name)) = 1
                    /\ rel.relispartition
                       => EntriesFor(r.files, rel.schema, rel.name) = {}

\* C8: with scope 'materialized-views', export() writes one file per
\* materialized view of the schemas and reports it in result.files with
\* type 'materialized-view', so the number of such files is positive
\* whenever a schema holds a materialized view.
C8_MaterializedViews ==
    \A i \in Returned :
        LET f == calls[i]
            r == f.result.val
        IN  SeqIncludes(f.scope, "materialized-views") =>
              \A rel \in db.relations :
                 (rel.relkind = "m" /\ rel.schema \in SchemasOf(f)) =>
                    /\ \E k \in EntriesFor(r.files, rel.schema, rel.name) :
                          /\ r.files[k].type = "materialized-view"
                          /\ r.files[k].filePath \in DOMAIN disk
                    /\ CountType(r.files, "materialized-view") > 0

----------------------------------------------------------------------------
(* The SQL-generation layer (generators.ts).  The text of a file is a      *)
(* sequence of tokens: a maximal run of word characters [A-Za-z0-9_] is    *)
(* one token and every other character is a token of its own (a run of '=' *)
(* of a rule line and each emoji are kept as one token).  A name read from *)
(* the catalog is the sequence of its tokens, so that includes(" "),       *)
(* includes("-") and the regular expressions of applyRoleMappings are      *)
(* computed on it.  The regular expressions are compiled from the role     *)
(* name as it is; role names here hold no regex metacharacter and are not  *)
(* part of the words TO and FROM.                                          *)

NonWord ==
    {" ", "\n", "\"", ",", ";", "(", ")", ".", ":", "-", "=", "*", "/", "'",
     "|", "$", ">", "====", "{dice}", "{broom}", "{zap}", "{bullet}", "{arrow}"}

IsWord(t) == t \notin NonWord

IsSpace(t) == t \in {" ", "\n"}

\* the words of the texts below that have an upper-case letter, lower-cased
\* (the regular expressions carry the flag i)
Lower(t) ==
    CASE t = "TO" -> "to"
      [] t = "FROM" -> "from"
      [] t = "ADMIN" -> "admin"
      [] t = "VISITOR" -> "visitor"
      [] OTHER -> t

Has(name, t) == \E i \in 1..Len(name) : name[i] = t

\* name.includes(" ") || name.includes("-") ? `"${name}"` : name
Escape(name) ==
    IF Has(name, " ") \/ Has(name, "-") THEN <<"\"">> \o name \o <<"\"">> ELSE name

\* words separated by one space
RECURSIVE Kw(_)
Kw(words) ==
    IF Len(words) = 0 THEN <<>>
    ELSE IF Len(words) = 1 THEN <<words[1]>>
    ELSE <<words[1], " ">> \o Kw(Tail(words))

\* Array.prototype.join
RECURSIVE Join(_, _)
Join(parts, sep) ==
    IF Len(parts) = 0 THEN <<>>
    ELSE IF Len(parts) = 1 THEN parts[1]
    ELSE parts[1] \o sep \o Join(Tail(parts), sep)

\* String.prototype.split on a one-token separator
RECURSIVE SplitTok(_, _)
SplitTok(text, sep) ==
    IF ~Has(text, sep) THEN <<text>>
    ELSE LET i == CHOOSE k \in 1..Len(text) :
                     text[k] = sep /\ \A j \in 1..(k - 1) : text[j] # sep
         IN  <<SubSeq(text, 1, i - 1)>> \o SplitTok(SubSeq(text, i + 1, Len(text)), sep)

\* the elements of a sequence in the order of their first occurrence
\* (the iteration order of a Set and of the keys of a Map)
Dedup(seq) ==
    LET firsts == { i \in 1..Len(seq) : \A j \in 1..(i - 1) : seq[j] # seq[i] }
        Nth(n) == CHOOSE i \in firsts : Cardinality({ j \in firsts : j < i }) = n - 1
    IN  [n \in 1..Cardinality(firsts) |-> seq[Nth(n)]]

\* Array.prototype.sort with a comparator on a rank: a stable sort
SortByRank(seq, rank(_)) ==
    LET Before(i, j) == rank(seq[i]) < rank(seq[j]) \/ (rank(seq[i]) = rank(seq[j]) /\ i < j)
        Nth(n) == CHOOSE i \in 1..Len(seq) :
                     Cardinality({ j \in 1..Len(seq) : Before(j, i) }) = n - 1
    IN  [n \in 1..Len(seq) |-> seq[Nth(n)]]

\* `${schema}.${tableName}`
Qualified(schema, tableName) == schema \o <<".">> \o tableName

\* --- applyRoleMappings ----------------------------------------------------

WordAt(text, i) == i \in 1..Len(text) /\ IsWord(text[i])

\* \b between the tokens p - 1 and p
Boundary(text, p) == WordAt(text, p - 1) # WordAt(text, p)

QuoteAt(text, i) == i \in 1..Len(text) /\ text[i] = "\""

\* the role name at the tokens i.., compared as the flag i compares
MatchAt(text, i, role) ==
    /\ i >= 1
    /\ i + Len(role) - 1 <= Len(text)
    /\ \A k \in 1..Len(role) : Lower(text[i + k - 1]) = Lower(role[k])

\* \s* from the token p on: the index of the first token that is no space
SkipSpace(text, p) ==
    CHOOSE k \in p..(Len(text) + 1) :
        /\ k = Len(text) + 1 \/ ~IsSpace(text[k])
        /\ \A j \in p..(k - 1) : IsSpace(text[j])

\* (?=\s*[,;)]) at the token p
Lookahead(text, p) ==
    LET k == SkipSpace(text, p)
    IN  k <= Len(text) /\ text[k] \in {",", ";", ")"}

\* "?role"?\b at the token k, followed by the lookahead when `ahead': the
\* index of the first token after the match, 0 when there is no match.  An
\* optional quote is taken when the rest then matches (greedy, backtracking).
RoleEnd(text, k, role, ahead) ==
    LET Close(e) ==
            IF QuoteAt(text, e) /\ Boundary(text, e + 1)
                   /\ (ahead => Lookahead(text, e + 1))
            THEN e + 1
            ELSE IF Boundary(text, e) /\ (ahead => Lookahead(text, e))
            THEN e
            ELSE 0
        quoted == IF QuoteAt(text, k) /\ MatchAt(text, k + 1, role)
                  THEN Close(k + 1 + Len(role)) ELSE 0
    IN  IF quoted # 0 THEN quoted
        ELSE IF MatchAt(text, k, role) THEN Close(k + Len(role))
        ELSE 0

NoMatch == [end |-> 0, keep |-> 0]

\* new RegExp(`\\b(TO|FROM)\\s+"?${actualRole}"?\\b`, "gi") at the token i:
\* the match ends before `end'; the callback replaces the tokens from `keep'
PatternToFrom(text, i, role) ==
    IF /\ WordAt(text, i)
       /\ Lower(text[i]) \in {"to", "from"}
       /\ Boundary(text, i)
       /\ i + 1 <= Len(text)
       /\ IsSpace(text[i + 1])
    THEN LET k == SkipSpace(text, i + 1)
             e == RoleEnd(text, k, role, FALSE)
         IN  IF e = 0 THEN NoMatch ELSE [end |-> e, keep |-> k]
    ELSE NoMatch

\* new RegExp(`\\b"?${actualRole}"?\\b(?=\\s*[,;)])`, "gi") at the token i
PatternInList(text, i, role) ==
    IF Boundary(text, i)
    THEN LET e == RoleEnd(text, i, role, TRUE)
         IN  IF e = 0 THEN NoMatch ELSE [end |-> e, keep |-> i]
    ELSE NoMatch

PatternAt(pattern, text, i, role) ==
    IF pattern = 1 THEN PatternToFrom(text, i, role) ELSE PatternInList(text, i, role)

\* mappedContent.replace(pattern, (match) => match.replace(/"?role"?/gi,
\* placeholder)): the matches from left to right, none overlapping another
RECURSIVE ReplaceFrom(_, _, _, _, _)
ReplaceFrom(text, from, pattern, role, placeholder) ==
    LET starts == { i \in from..Len(text) : PatternAt(pattern, text, i, role).end # 0 }
    IN  IF starts = {} THEN SubSeq(text, from, Len(text))
        ELSE LET i == CHOOSE a \in starts : \A b \in starts : a <= b
                 m == PatternAt(pattern, text, i, role)
             IN  SubSeq(text, from, m.keep - 1) \o placeholder
                    \o ReplaceFrom(text, m.end, pattern, role, placeholder)

\* applyRoleMappings: the entries in the order of Object.entries, for each
\* entry the two patterns in turn on the text the last replacement left
RECURSIVE applyRoleMappings(_, _)
applyRoleMappings(text, mappings) ==
    IF Len(mappings) = 0 THEN text
    ELSE LET m == mappings[1]
             one == ReplaceFrom(text, 1, 1, m.role, m.placeholder)
             two == ReplaceFrom(one, 1, 2, m.role, m.placeholder)
         IN  applyRoleMappings(two, Tail(mappings))

\* --- the statement generators ----------------------------------------------

GrantOption(is_grantable) ==
    IF is_grantable THEN <<" ", "WITH", " ", "GRANT", " ", "OPTION">> ELSE <<>>

\* generateGrantsSQL: one GRANT per row, in the order of the rows
generateGrantsSQL(schema, tableName, grants) ==
    [i \in 1..Len(grants) |->
        <<"GRANT", " ">> \o grants[i].privilege
            \o <<" ", "ON", " ", "TABLE", " ">> \o Qualified(schema, tableName)
            \o <<" ", "TO", " ">> \o Escape(grants[i].grantee)
            \o GrantOption(grants[i].is_grantable) \o <<";">>]

\* `${grant.grantee}:${grant.privilege}:${grant.is_grantable}`
ColumnGrantKey(grant) ==
    grant.grantee \o <<":">> \o grant.privilege \o <<":">>
        \o <<IF grant.is_grantable THEN "true" ELSE "false">>

\* the elements of a sequence that satisfy a test, in their order
Filter(seq, Test(_)) ==
    LET kept == { i \in 1..Len(seq) : Test(seq[i]) }
        Nth(n) == CHOOSE i \in kept : Cardinality({ j \in kept : j < i }) = n - 1
    IN  [n \in 1..Cardinality(kept) |-> seq[Nth(n)]]

\* generateColumnGrantsSQL: the rows grouped in a Map under the key, one
\* GRANT per key with the columns of its Set, the key split again on ":"
generateColumnGrantsSQL(schema, tableName, columnGrants) ==
    LET keys == Dedup([i \in 1..Len(columnGrants) |-> ColumnGrantKey(columnGrants[i])])
        Columns(key) ==
            LET HasKey(g) == ColumnGrantKey(g) = key
                rows == Filter(columnGrants, HasKey)
            IN  Dedup([i \in 1..Len(rows) |-> rows[i].column_name])
        Line(key) ==
            LET parts == SplitTok(key, ":")
                grantee == parts[1]
                privilege == parts[2]
                isGrantable == parts[3] = <<"true">>
                cols == Columns(key)
                escapedColumns == [i \in 1..Len(cols) |-> Escape(cols[i])]
            IN  <<"GRANT", " ">> \o privilege \o <<" ", "(">>
                    \o Join(escapedColumns, <<",", " ">>)
                    \o <<")", " ", "ON", " ", "TABLE", " ">> \o Qualified(schema, tableName)
                    \o <<" ", "TO", " ">> \o Escape(grantee)
                    \o GrantOption(isGrantable) \o <<";">>
    IN  [i \in 1..Len(keys) |-> Line(keys[i])]

\* the order of localeCompare on the names of policies and triggers
IdentOrder ==
    << <<"audit">>, <<"manage_all">>, <<"select_own">>, <<"set_updated_at">> >>

IdentRank(name) == CHOOSE i \in 1..Len(IdentOrder) : IdentOrder[i] = name

\* the order of the default sort on the trigger events
EventOrder == <<"DELETE", "INSERT", "TRUNCATE", "UPDATE">>

EventRank(e) == CHOOSE i \in 1..Len(EventOrder) : EventOrder[i] = e

\* `${name}|${timing}|${orientation}|${statement}|${condition || ""}`
TriggerGroupKey(t) ==
    t.trigger_name \o <<"|">> \o t.action_timing \o <<"|">> \o t.action_orientation
        \o <<"|">> \o t.action_statement \o <<"|">> \o t.action_condition

\* generateTriggersSQL without the grouping: one statement per row
generateTriggersSQLPerRow(schema, tableName, triggers) ==
    [i \in 1..Len(triggers) |->
        <<"CREATE", " ", "TRIGGER", " ">> \o Escape(triggers[i].trigger_name)
            \o <<" ">> \o triggers[i].action_timing
            \o <<" ", triggers[i].event_manipulation>>
            \o <<" ", "ON", " ">> \o Qualified(schema, tableName)
            \o <<" ", "FOR", " ", "EACH", " ">> \o triggers[i].action_orientation
            \o (IF triggers[i].action_condition # <<>>
                THEN <<" ", "WHEN", " ", "(">> \o triggers[i].action_condition \o <<")">>
                ELSE <<>>)
            \o <<" ">> \o triggers[i].action_statement \o <<";">>]

\* generateTriggersSQL: the rows grouped under the key (a group keeps the
\* fields of its first row and the events of all its rows), the groups
\* sorted by trigger name, the events of a group sorted
generateTriggersSQL(schema, tableName, triggers) ==
    LET keys == Dedup([i \in 1..Len(triggers) |-> TriggerGroupKey(triggers[i])])
        Group(key) ==
            LET HasKey(t) == TriggerGroupKey(t) = key
                rows == Filter(triggers, HasKey)
            IN  [trigger_name |-> rows[1].trigger_name,
                 action_timing |-> rows[1].action_timing,
                 events |-> [i \in 1..Len(rows) |-> rows[i].event_manipulation],
                 action_orientation |-> rows[1].action_orientation,
                 action_statement |-> rows[1].action_statement,
                 action_condition |-> rows[1].action_condition]
        GroupRank(g) == IdentRank(g.trigger_name)
        sortedTriggers == SortByRank([i \in 1..Len(keys) |-> Group(keys[i])], GroupRank)
        Line(g) ==
            LET sortedEvents == SortByRank(g.events, EventRank)
                events == [i \in 1..Len(sortedEvents) |-> <<sortedEvents[i]>>]
            IN  <<"CREATE", " ", "TRIGGER", " ">> \o Escape(g.trigger_name)
                    \o <<" ">> \o g.action_timing \o <<" ">>
                    \o Join(events, <<" ", "OR", " ">>)
                    \o <<" ", "ON", " ">> \o Qualified(schema, tableName)
                    \o <<" ", "FOR", " ", "EACH", " ">> \o g.action_orientation
                    \o (IF g.action_condition # <<>>
                        THEN <<" ", "WHEN", " ", "(">> \o g.action_condition \o <<")">>
                        ELSE <<>>)
                    \o <<" ">> \o g.action_statement \o <<";">>
    IN  [i \in 1..Len(sortedTriggers) |-> Line(sortedTriggers[i])]

\* generatePoliciesSQL: ENABLE and FORCE as the flags say, then one CREATE
\* POLICY per policy, the policies sorted by name
generatePoliciesSQL(schema, tableName, rlsEnabled, rlsForce, policies) ==
    LET PolicyRank(pol) == IdentRank(pol.policy)
        sortedPolicies == SortByRank(policies, PolicyRank)
        Line(pol) ==
            LET escapedRoles == [i \in 1..Len(pol.roles) |-> Escape(pol.roles[i])]
            IN  <<"CREATE", " ", "POLICY", " ">> \o Escape(pol.policy)
                    \o <<" ", "ON", " ">> \o Qualified(schema, tableName)
                    \o (IF pol.permissive = "RESTRICTIVE"
                        THEN <<" ", "AS", " ", "RESTRICTIVE">> ELSE <<>>)
                    \o <<" ", "FOR", " ">> \o pol.cmd
                    \o (IF Len(pol.roles) > 0
                        THEN <<" ", "TO", " ">> \o Join(escapedRoles, <<",", " ">>)
                        ELSE <<>>)
                    \o (IF pol.using # <<>>
                        THEN <<" ", "USING", " ", "(">> \o pol.using \o <<")">>
                        ELSE <<>>)
                    \o (IF pol.with_check # <<>>
                        THEN <<" ", "WITH", " ", "CHECK", " ", "(">> \o pol.with_check \o <<")">>
                        ELSE <<>>)
                    \o <<";">>
    IN  (IF rlsEnabled
         THEN << <<"ALTER", " ", "TABLE", " ">> \o Qualified(schema, tableName)
                    \o <<" ", "ENABLE", " ", "ROW", " ", "LEVEL", " ", "SECURITY", ";">> >>
         ELSE <<>>)
        \o (IF rlsForce
            THEN << <<"ALTER", " ", "TABLE", " ">> \o Qualified(schema, tableName)
                       \o <<" ", "FORCE", " ", "ROW", " ", "LEVEL", " ", "SECURITY", ";">> >>
            ELSE <<>>)
        \o [i \in 1..Len(sortedPolicies) |-> Line(sortedPolicies[i])]

\* --- generateSchemaDocumentation and generateTableSQL ---------------------

Indent == <<" ", " ">>

Bullet == Indent \o <<"{bullet}", " ">>

\* new Date().toISOString()
IsoDate == <<"2025", "-", "01", "-", "01T00", ":", "00", ":", "00", ".", "000Z">>

\* /^\d+_\d+_\d+_.+/.test(constraint_name)
SystemGenerated(name) == name = <<"2200_16386_1_not_null">>

ColumnDoc(col) ==
    Bullet \o col.column_name \o <<":", " ">> \o col.data_type
        \o (IF col.character_maximum_length # <<>>
            THEN <<"(">> \o col.character_maximum_length \o <<")">>
            ELSE IF col.numeric_precision # <<>> /\ col.numeric_scale # <<>>
            THEN <<"(">> \o col.numeric_precision \o <<",">> \o col.numeric_scale \o <<")">>
            ELSE IF col.numeric_precision # <<>>
            THEN <<"(">> \o col.numeric_precision \o <<")">>
            ELSE <<>>)
        \o (IF col.is_nullable = "NO" THEN <<" ", "NOT", " ", "NULL">> ELSE <<>>)
        \o (IF col.column_default # <<>>
            THEN <<" ", "DEFAULT", " ">> \o col.column_default ELSE <<>>)
        \o (IF col.comment # <<>> THEN <<" ", "-", "-", " ">> \o col.comment ELSE <<>>)

\* one section of the constraints: a title, one line per row, an empty line
ConstraintSection(title, rows, Doc(_)) ==
    IF Len(rows) = 0 THEN <<>>
    ELSE <<Indent \o title \o <<":">> >> \o [i \in 1..Len(rows) |-> Doc(rows[i])] \o << <<>> >>

generateSchemaDocumentation(schema, tableName, columns, constraints, tableComment) ==
    LET IsPk(c) == c.constraint_type = "PRIMARY KEY"
        IsFk(c) == c.constraint_type = "FOREIGN KEY"
        IsUnique(c) == c.constraint_type = "UNIQUE"
        IsUserCheck(c) == c.constraint_type = "CHECK" /\ ~SystemGenerated(c.constraint_name)
        KeyDoc(c) == Bullet \o c.constraint_name \o <<":", " ">> \o c.column_name
        FkDoc(c) == KeyDoc(c) \o <<" ", "{arrow}", " ">> \o c.foreign_table_name
                        \o <<".">> \o c.foreign_column_name
        CheckDoc(c) == Bullet \o c.constraint_name \o <<":", " ">> \o c.check_clause
    IN  << <<>>,
           <<"/", "*">>,
           Indent \o <<"TABLE", " ", "SCHEMA", " ", "DOCUMENTATION", ":", " ">>
               \o Qualified(schema, tableName),
           Indent \o <<"====">> >>
        \o (IF tableComment # <<>>
            THEN << Indent \o <<"Table", " ", "Comment", ":", " ">> \o tableComment, <<>> >>
            ELSE <<>>)
        \o (IF Len(columns) > 0
            THEN << Indent \o <<"COLUMNS", ":">>,
                    Indent \o <<"-", "-", "-", "-", "-", "-", "-", "-">> >>
                 \o [i \in 1..Len(columns) |-> ColumnDoc(columns[i])]
                 \o << <<>> >>
            ELSE <<>>)
        \o ConstraintSection(<<"PRIMARY", " ", "KEY">>, Filter(constraints, IsPk), KeyDoc)
        \o ConstraintSection(<<"FOREIGN", " ", "KEYS">>, Filter(constraints, IsFk), FkDoc)
        \o ConstraintSection(<<"UNIQUE", " ", "CONSTRAINTS">>, Filter(constraints, IsUnique), KeyDoc)
        \o ConstraintSection(<<"CHECK", " ", "CONSTRAINTS">>, Filter(constraints, IsUserCheck), CheckDoc)
        \o << <<"*", "/">>, <<>> >>

RuleLine == <<"-", "-", " ", "====">>

\* the cleanup section of generateTableSQL
CleanupSection(schema, tableData) ==
    LET tableName == tableData.table
        policies == tableData.rls.policies
        triggers == tableData.triggers
        table_grants == tableData.rbac.table_grants
        column_grants == tableData.rbac.column_grants
        uniqueTriggerNames == Dedup([i \in 1..Len(triggers) |-> triggers[i].trigger_name])
        allGrantees == Dedup([i \in 1..Len(table_grants) |-> table_grants[i].grantee]
                             \o [i \in 1..Len(column_grants) |-> column_grants[i].grantee])
    IN  (IF Len(policies) > 0
         THEN [i \in 1..Len(policies) |->
                  <<"DROP", " ", "POLICY", " ", "IF", " ", "EXISTS", " ">>
                      \o Escape(policies[i].policy)
                      \o <<" ", "ON", " ">> \o Qualified(schema, tableName) \o <<";">>]
              \o << <<>> >>
         ELSE <<>>)
        \o (IF Len(triggers) > 0
            THEN [i \in 1..Len(uniqueTriggerNames) |->
                     <<"DROP", " ", "TRIGGER", " ", "IF", " ", "EXISTS", " ">>
                         \o Escape(uniqueTriggerNames[i])
                         \o <<" ", "ON", " ">> \o Qualified(schema, tableName) \o <<";">>]
                 \o << <<>> >>
            ELSE <<>>)
        \o (IF Len(table_grants) > 0 \/ Len(column_grants) > 0
            THEN << <<"-", "-", " ", "Revoke", " ", "existing", " ", "grants">> >>
                 \o [i \in 1..Len(allGrantees) |->
                        <<"REVOKE", " ", "ALL", " ", "ON", " ", "TABLE", " ">>
                            \o Qualified(schema, tableName)
                            \o <<" ", "FROM", " ">> \o Escape(allGrantees[i]) \o <<";">>]
                 \o << <<>> >>
            ELSE <<>>)
        \o (IF tableData.rls.enabled
            THEN << <<"ALTER", " ", "TABLE", " ">> \o Qualified(schema, tableName)
                       \o <<" ", "DISABLE", " ", "ROW", " ", "LEVEL", " ", "SECURITY", ";">>,
                    <<>> >>
            ELSE <<>>)

\* the recreation section of generateTableSQL
RecreationSection(schema, tableData) ==
    LET tableName == tableData.table
        rls == tableData.rls
    IN  (IF Len(tableData.rbac.table_grants) > 0
         THEN << <<"-", "-", " ", "Table", "-", "level", " ", "grants">> >>
              \o generateGrantsSQL(schema, tableName, tableData.rbac.table_grants)
              \o << <<>> >>
         ELSE <<>>)
        \o (IF Len(tableData.rbac.column_grants) > 0
            THEN << <<"-", "-", " ", "Column", "-", "level", " ", "grants">> >>
                 \o generateColumnGrantsSQL(schema, tableName, tableData.rbac.column_grants)
                 \o << <<>> >>
            ELSE <<>>)
        \o (IF rls.enabled \/ Len(rls.policies) > 0
            THEN << <<"-", "-", " ", "Row", " ", "Level", " ", "Security", " ", "policies">> >>
                 \o generatePoliciesSQL(schema, tableName, rls.enabled, rls.force, rls.policies)
                 \o << <<>> >>
            ELSE <<>>)
        \o (IF Len(tableData.triggers) > 0
            THEN << <<"-", "-", " ", "Triggers">> >>
                 \o generateTriggersSQL(schema, tableName, tableData.triggers)
                 \o << <<>> >>
            ELSE <<>>)

\* generateTableSQL: header, cleanup, recreation, documentation, joined with
\* "\n", then the role mappings when there is one
generateTableSQL(schema, tableData, mappings, includeDate) ==
    LET sections ==
            << RuleLine,
               <<"-", "-", " ", "Table", ":", " ">> \o Qualified(schema, tableData.table),
               <<"-", "-", " ", "Generated", " ", "by", " ", "Tablerizer", " ", "{dice}">> >>
            \o (IF includeDate
                THEN << <<"-", "-", " ", "Date", ":", " ">> \o IsoDate >> ELSE <<>>)
            \o << RuleLine,
                  <<>>,
                  <<"-", "-", " ", "{broom}", " ", "Cleanup", " ", "Section", " ",
                    "(", "for", " ", "idempotency", ")">>,
                  <<"-", "-", " ", "====">>,
                  <<>> >>
            \o CleanupSection(schema, tableData)
            \o << <<"-", "-", " ", "{zap}", " ", "Recreation", " ", "Section">>,
                  <<"-", "-", " ", "====">>,
                  <<>> >>
            \o RecreationSection(schema, tableData)
            \o generateSchemaDocumentation(schema, tableData.table, tableData.columns,
                                           tableData.constraints, tableData.comment)
        text == Join(sections, <<"\n">>)
    IN  IF Len(mappings) > 0 THEN applyRoleMappings(text, mappings) ELSE text

----------------------------------------------------------------------------
(* Executing a generated file.  The file is run as psql runs it: comments  *)
(* are skipped, a placeholder :NAME is replaced by the value the deployment*)
(* gives to NAME, and the statements run in order against the policies,    *)
(* triggers, row-level-security flags and grants of the target database.   *)
(* As in PostgreSQL, CREATE POLICY and CREATE TRIGGER fail when the object *)
(* exists, DROP ... IF EXISTS skips a missing object or table, REVOKE ALL  *)
(* ON TABLE removes the table and column privileges of the grantee.        *)

Lines(text) == SplitTok(text, "\n")

StartsWith(line, words) ==
    Len(line) >= Len(words) /\ SubSeq(line, 1, Len(words)) = words

\* the lines that are statements: not empty, not a -- comment, not inside
\* the block comment of the documentation
StatementLines(text) ==
    LET lines == Lines(text)
        InComment(i) ==
            \E a \in 1..i :
                /\ StartsWith(lines[a], <<"/", "*">>)
                /\ \A b \in a..(i - 1) : ~StartsWith(lines[b], <<"*", "/">>)
        kept == { i \in 1..Len(lines) :
                    /\ lines[i] # <<>>
                    /\ ~StartsWith(lines[i], <<"-", "-">>)
                    /\ ~InComment(i) }
        Nth(n) == CHOOSE i \in kept : Cardinality({ j \in kept : j < i }) = n - 1
    IN  [n \in 1..Cardinality(kept) |-> lines[Nth(n)]]

\* psql variable interpolation: :NAME becomes the value of NAME
Interpolate(line, variables) ==
    LET Piece(i) ==
            IF line[i] = ":" /\ i < Len(line) /\ line[i + 1] \in DOMAIN variables
            THEN variables[line[i + 1]]
            ELSE IF i > 1 /\ line[i - 1] = ":" /\ line[i] \in DOMAIN variables
            THEN <<>>
            ELSE <<line[i]>>
    IN  Join([i \in 1..Len(line) |-> Piece(i)], <<>>)

NotSpace(t) == ~IsSpace(t)

\* the first index from `from' on whose token is in the set, Len + 1 if none
IndexIn(S, from, set) ==
    IF from > Len(S) THEN Len(S) + 1
    ELSE CHOOSE k \in from..(Len(S) + 1) :
            /\ k = Len(S) + 1 \/ S[k] \in set
            /\ \A j \in from..(k - 1) : S[j] \notin set

\* an identifier at the token i: a word, or what stands between two quotes
ReadName(S, i) ==
    IF i > Len(S) THEN [name |-> <<>>, next |-> Len(S) + 1, ok |-> FALSE]
    ELSE IF S[i] = "\""
    THEN LET j == IndexIn(S, i + 1, {"\""})
         IN  [name |-> SubSeq(S, i + 1, j - 1),
              next |-> IF j <= Len(S) THEN j + 1 ELSE j,
              ok |-> j <= Len(S)]
    ELSE [name |-> <<S[i]>>, next |-> i + 1, ok |-> IsWord(S[i])]

TableStop == {";", "FROM", "TO", "FOR", "AS", "ENABLE", "DISABLE", "FORCE"}

NoStatement ==
    [kind |-> "unknown", name |-> <<>>, table |-> <<>>, privilege |-> <<>>,
     columns |-> {}, option |-> FALSE, def |-> <<>>, ok |-> FALSE]

\* a statement of a table file, read from its tokens
ParseStatement(line) ==
    LET S == Filter(line, NotSpace)
        n == Len(S)
        quotes == Cardinality({ i \in 1..n : S[i] = "\"" })
        closed == n > 0 /\ S[n] = ";" /\ quotes % 2 = 0
        Drop(kind) ==
            LET id == ReadName(S, 5)
                e == IndexIn(S, id.next + 1, TableStop)
            IN  [NoStatement EXCEPT
                    !.kind = kind, !.name = id.name,
                    !.table = SubSeq(S, id.next + 1, e - 1),
                    !.ok = closed /\ id.ok /\ id.next <= n /\ S[id.next] = "ON" /\ e = n]
        Create(kind) ==
            LET id == ReadName(S, 3)
                o == IndexIn(S, id.next, {"ON"})
                e == IndexIn(S, o + 1, TableStop)
            IN  [NoStatement EXCEPT
                    !.kind = kind, !.name = id.name,
                    !.table = SubSeq(S, o + 1, e - 1),
                    !.def = SubSeq(S, id.next, o - 1) \o SubSeq(S, e, n),
                    !.ok = closed /\ id.ok /\ o <= n /\ e < n]
        Revoke ==
            LET e == IndexIn(S, 5, TableStop)
                id == ReadName(S, e + 1)
            IN  [NoStatement EXCEPT
                    !.kind = "revoke", !.name = id.name,
                    !.table = SubSeq(S, 5, e - 1),
                    !.ok = closed /\ e < n /\ S[e] = "FROM" /\ id.ok /\ id.next = n]
        Grant ==
            LET o == IndexIn(S, 2, {"ON"})
                e == IndexIn(S, o + 2, TableStop)
                id == ReadName(S, e + 1)
                rest == SubSeq(S, id.next, n)
            IN  [NoStatement EXCEPT
                    !.kind = "grant", !.name = id.name,
                    !.table = SubSeq(S, o + 2, e - 1),
                    !.privilege = IF n >= 2 THEN <<S[2]>> ELSE <<>>,
                    !.columns = { S[k] : k \in { j \in 4..(o - 2) : S[j] \notin {",", "\""} } },
                    !.option = rest = <<"WITH", "GRANT", "OPTION", ";">>,
                    !.ok = /\ closed /\ o + 1 <= n /\ S[o + 1] = "TABLE"
                           /\ e < n /\ S[e] = "TO" /\ id.ok
                           /\ rest \in {<<";">>, <<"WITH", "GRANT", "OPTION", ";">>}]
        Alter ==
            LET e == IndexIn(S, 3, TableStop)
            IN  [NoStatement EXCEPT
                    !.kind = "alter",
                    !.table = SubSeq(S, 3, e - 1),
                    !.def = SubSeq(S, e, e),
                    !.ok = closed /\ e < n
                           /\ SubSeq(S, e + 1, n) = <<"ROW", "LEVEL", "SECURITY", ";">>]
    IN  IF StartsWith(S, <<"DROP", "POLICY", "IF", "EXISTS">>) THEN Drop("drop policy")
        ELSE IF StartsWith(S, <<"DROP", "TRIGGER", "IF", "EXISTS">>) THEN Drop("drop trigger")
        ELSE IF StartsWith(S, <<"CREATE", "POLICY">>) THEN Create("create policy")
        ELSE IF StartsWith(S, <<"CREATE", "TRIGGER">>) THEN Create("create trigger")
        ELSE IF StartsWith(S, <<"REVOKE", "ALL", "ON", "TABLE">>) THEN Revoke
        ELSE IF StartsWith(S, <<"GRANT">>) THEN Grant
        ELSE IF StartsWith(S, <<"ALTER", "TABLE">>) THEN Alter
        ELSE NoStatement

\* schema.table, each a plain identifier
PlainTable(table) ==
    Len(table) = 3 /\ IsWord(table[1]) /\ table[2] = "." /\ IsWord(table[3])

\* the database after one statement, and whether the statement failed
Execute(st, tgt) ==
    LET Fail == [target |-> tgt, error |-> TRUE]
        Done(t) == [target |-> t, error |-> FALSE]
        Object == [table |-> st.table, name |-> st.name]
        SameObject(x) == x.table = st.table /\ x.name = st.name
    IN  IF ~st.ok \/ ~PlainTable(st.table) THEN Fail
        ELSE IF st.kind = "drop policy"
        THEN Done([tgt EXCEPT !.policies = { x \in @ : ~SameObject(x) }])
        ELSE IF st.kind = "drop trigger"
        THEN Done([tgt EXCEPT !.triggers = { x \in @ : ~SameObject(x) }])
        ELSE IF st.table \notin tgt.tables THEN Fail
        ELSE IF st.kind = "create policy"
        THEN IF \E x \in tgt.policies : SameObject(x) THEN Fail
             ELSE Done([tgt EXCEPT !.policies = @ \cup {[table |-> st.table, name |-> st.name, def |-> st.def]}])
        ELSE IF st.kind = "create trigger"
        THEN IF \E x \in tgt.triggers : SameObject(x) THEN Fail
             ELSE Done([tgt EXCEPT !.triggers = @ \cup {[table |-> st.table, name |-> st.name, def |-> st.def]}])
        ELSE IF st.kind = "revoke"
        THEN Done([tgt EXCEPT !.grants = { g \in @ : ~(g.table = st.table /\ g.grantee = st.name) }])
        ELSE IF st.kind = "grant"
        THEN Done([tgt EXCEPT !.grants = @ \cup
                     {[table |-> st.table, grantee |-> st.name, privilege |-> st.privilege,
                       columns |-> st.columns, grantable |-> st.option]}])
        ELSE IF st.def = <<"ENABLE">> THEN Done([tgt EXCEPT !.rls = @ \cup {st.table}])
        ELSE IF st.def = <<"DISABLE">> THEN Done([tgt EXCEPT !.rls = @ \ {st.table}])
        ELSE Done([tgt EXCEPT !.force = @ \cup {st.table}])

----------------------------------------------------------------------------
(* The generator runs: a table is read from the catalog, generateTableSQL  *)
(* writes its file, and the file is executed against a target database,    *)
(* up to MaxRuns times.                                                    *)

MaxRuns == 2

PublicSchema == <<"public">>

RoleVisitor == <<"visitor">>

RoleAdmin == <<"admin">>

\* a row of information_schema.table_privileges
TableGrant(grantor, grantee, privilege, is_grantable) ==
    [grantor |-> grantor, grantee |-> grantee, privilege |-> <<privilege>>,
     is_grantable |-> is_grantable]

\* a row of information_schema.column_privileges
ColumnGrant(column_name, grantor, grantee, privilege, is_grantable) ==
    [column_name |-> <<column_name>>, grantor |-> grantor, grantee |-> grantee,
     privilege |-> <<privilege>>, is_grantable |-> is_grantable]

\* a row of pg_policies
Policy(name, cmd, roles, permissive, using, with_check) ==
    [policy |-> <<name>>, cmd |-> <<cmd>>, roles |-> roles, permissive |-> permissive,
     using |-> using, with_check |-> with_check]

\* a row of information_schema.triggers
TriggerRow(name, timing, event, orientation, function, condition) ==
    [trigger_name |-> <<name>>, action_timing |-> <<timing>>,
     event_manipulation |-> event, action_orientation |-> <<orientation>>,
     action_statement |-> <<"EXECUTE", " ", "FUNCTION", " ", function, "(", ")">>,
     action_condition |-> condition]

TableGrantRows ==
    { <<>>,
      << TableGrant(<<"postgres">>, RoleVisitor, "SELECT", FALSE),
         TableGrant(<<"postgres">>, RoleAdmin, "INSERT", TRUE) >>,
      << TableGrant(<<"postgres">>, RoleAdmin, "SELECT", FALSE),
         TableGrant(<<"owner">>, RoleAdmin, "SELECT", FALSE) >> }

ColumnGrantRows ==
    { <<>>,
      << ColumnGrant("email", <<"postgres">>, RoleVisitor, "UPDATE", FALSE),
         ColumnGrant("name", <<"postgres">>, RoleVisitor, "UPDATE", FALSE),
         ColumnGrant("email", <<"postgres">>, RoleAdmin, "UPDATE", TRUE) >> }

SelectOwn == Policy("select_own", "SELECT", <<RoleVisitor>>, "PERMISSIVE", <<"true">>, <<>>)

ManageAll ==
    Policy("manage_all", "ALL", <<RoleVisitor, RoleAdmin>>, "RESTRICTIVE", <<"true">>, <<"true">>)

RlsStates ==
    { [enabled |-> FALSE, force |-> FALSE, policies |-> <<>>],
      [enabled |-> TRUE, force |-> FALSE, policies |-> <<SelectOwn>>],
      [enabled |-> TRUE, force |-> TRUE, policies |-> <<SelectOwn, ManageAll>>],
      [enabled |-> FALSE, force |-> FALSE,
       policies |-> << Policy("manage_all", "ALL", <<>>, "PERMISSIVE", <<>>, <<"true">>) >>] }

\* the rows come ORDER BY trigger_name, event_manipulation
TriggerRows ==
    { <<>>,
      << TriggerRow("audit", "AFTER", "DELETE", "STATEMENT", "audit_log", <<>>),
         TriggerRow("set_updated_at", "BEFORE", "INSERT", "ROW", "touch", <<"true">>),
         TriggerRow("set_updated_at", "BEFORE", "UPDATE", "ROW", "touch", <<"true">>) >> }

IdColumn ==
    [column_name |-> <<"id">>, data_type |-> <<"integer">>,
     character_maximum_length |-> <<>>, numeric_precision |-> <<"32">>,
     numeric_scale |-> <<"0">>, is_nullable |-> "NO",
     column_default |-> <<>>, comment |-> <<>>]

EmailColumn ==
    [column_name |-> <<"email">>, data_type |-> <<"character", " ", "varying">>,
     character_maximum_length |-> <<"255">>, numeric_precision |-> <<>>,
     numeric_scale |-> <<>>, is_nullable |-> "YES",
     column_default |-> <<"'", "'">>, comment |-> <<"login">>]

Constraint(type, name, column) ==
    [constraint_type |-> type, constraint_name |-> <<name>>, column_name |-> <<column>>,
     foreign_table_name |-> <<"accounts">>, foreign_column_name |-> <<"id">>,
     check_clause |-> <<"id", " ", ">", " ", "0">>]

Documentations ==
    { [columns |-> <<>>, constraints |-> <<>>, comment |-> <<>>],
      [columns |-> <<IdColumn, EmailColumn>>,
       constraints |-> << Constraint("PRIMARY KEY", "users_pkey", "id"),
                          Constraint("FOREIGN KEY", "users_account_fkey", "id"),
                          Constraint("UNIQUE", "users_email_key", "email"),
                          Constraint("CHECK", "users_id_check", "id"),
                          Constraint("CHECK", "2200_16386_1_not_null", "id") >>,
       comment |-> <<"App", " ", "users">>],
      \* a primary key over two columns: key_column_usage has a row for each
      [columns |-> <<IdColumn>>,
       constraints |-> << Constraint("PRIMARY KEY", "users_pkey", "id"),
                          Constraint("PRIMARY KEY", "users_pkey", "email") >>,
       comment |-> <<>>] }

TableNames == { <<"users">>, <<"admin">> }

\* the TableData getTableData can return
TableDatas ==
    { [table |-> t,
       rbac |-> [table_grants |-> g, column_grants |-> c],
       rls |-> r, triggers |-> tr,
       columns |-> d.columns, constraints |-> d.constraints, comment |-> d.comment] :
      t \in TableNames, g \in TableGrantRows, c \in ColumnGrantRows, r \in RlsStates,
      tr \in TriggerRows, d \in Documentations }

RoleMappingSets ==
    { <<>>,
      << [role |-> RoleAdmin, placeholder |-> <<":", "DATABASE_ADMIN">>] >>,
      << [role |-> RoleVisitor, placeholder |-> <<":", "DATABASE_VISITOR">>],
         [role |-> RoleAdmin, placeholder |-> <<":", "DATABASE_ADMIN">>] >> }

\* the values a deployment gives to the placeholders: the roles of the
\* database the files were read from, or the roles of another environment
Deployments ==
    { [v \in {"DATABASE_VISITOR", "DATABASE_ADMIN"} |->
          IF v = "DATABASE_VISITOR" THEN RoleVisitor ELSE RoleAdmin],
      [v \in {"DATABASE_VISITOR", "DATABASE_ADMIN"} |->
          IF v = "DATABASE_VISITOR" THEN <<"prod_visitor">> ELSE <<"prod_admin">>] }

TargetTables == { Qualified(PublicSchema, t) : t \in TableNames }

\* the target database before the first execution: without any policy,
\* trigger or grant, or with some left by an earlier deployment
Targets ==
    { [tables |-> TargetTables, policies |-> {}, triggers |-> {}, grants |-> {},
       rls |-> {}, force |-> {}],
      [tables |-> TargetTables,
       policies |-> { [table |-> Qualified(PublicSchema, <<"users">>),
                       name |-> <<"old_policy">>, def |-> <<"FOR", "ALL", ";">>] },
       triggers |-> {},
       grants |-> { [table |-> Qualified(PublicSchema, <<"users">>), grantee |-> RoleVisitor,
                     privilege |-> <<"DELETE">>, columns |-> {}, grantable |-> FALSE] },
       rls |-> { Qualified(PublicSchema, <<"users">>) }, force |-> {}] }

NotRunning == [running |-> FALSE, rest |-> <<>>]

InitGen ==
    /\ ConfigIdle
    /\ InstanceIdle
    /\ tableInput \in TableDatas
    /\ roleMappings \in RoleMappingSets
    /\ psqlVars \in Deployments
    /\ target \in Targets
    /\ sqlContent = <<>>
    /\ script = NotRunning
    /\ runs = <<>>

\* export(), lines 145-156: the file of the table is generated and written
GenerateTable ==
    /\ sqlContent = <<>>
    /\ \E includeDate \in BOOLEAN :
          sqlContent' = generateTableSQL(PublicSchema, tableInput, roleMappings, includeDate)
    /\ UNCHANGED <<tableInput, roleMappings, psqlVars, script, target, runs>>
    /\ UNCHANGED <<cfgVars, instVars>>

\* the file is handed to psql
StartRun ==
    /\ sqlContent # <<>>
    /\ ~script.running
    /\ Len(runs) < MaxRuns
    /\ script' = [running |-> TRUE, rest |-> StatementLines(sqlContent)]
    /\ UNCHANGED <<tableInput, roleMappings, sqlContent, psqlVars, target, runs>>
    /\ UNCHANGED <<cfgVars, instVars>>

\* the next statement of the file is executed; the run stops at an error
ExecuteStatement ==
    /\ script.running
    /\ script.rest # <<>>
    /\ LET st == ParseStatement(Interpolate(Head(script.rest), psqlVars))
           r == Execute(st, target)
       IN  IF r.error
           THEN /\ runs' = Append(runs, [ok |-> FALSE, target |-> target])
                /\ script' = NotRunning
                /\ UNCHANGED target
           ELSE /\ target' = r.target
                /\ script' = [script EXCEPT !.rest = Tail(@)]
                /\ UNCHANGED runs
    /\ UNCHANGED <<tableInput, roleMappings, sqlContent, psqlVars>>
    /\ UNCHANGED <<cfgVars, instVars>>

\* the end of the file is reached
FinishRun ==
    /\ script.running
    /\ script.rest = <<>>
    /\ runs' = Append(runs, [ok |-> TRUE, target |-> target])
    /\ script' = NotRunning
    /\ UNCHANGED <<tableInput, roleMappings, sqlContent, psqlVars, target>>
    /\ UNCHANGED <<cfgVars, instVars>>

NextGen ==
    \/ GenerateTable
    \/ StartRun
    \/ ExecuteStatement
    \/ FinishRun

SpecGen == InitGen /\ [][NextGen]_vars

----------------------------------------------------------------------------
(* Claims about the generated table files.                                 *)

\* the file has just been written and not been executed yet
Written == sqlContent # <<>> /\ runs = <<>> /\ ~script.running

\* the statements of the written file, as they stand in its text
WrittenStatements ==
    LET lines == StatementLines(sqlContent)
    IN  [i \in 1..Len(lines) |-> ParseStatement(lines[i])]

\* C1: the file of a table is idempotent: when its first execution against
\* a database has succeeded, a second execution against the same database
\* succeeds as well and leaves policies, triggers, row-level-security flags
\* and grants as they were after the first.
C1_Idempotent ==
    (Len(runs) = 2 /\ runs[1].ok) => (runs[2].ok /\ runs[2].target = runs[1].target)

\* C2: in a table file every CREATE POLICY, CREATE TRIGGER and GRANT comes
\* after its cleanup statement on the same table: DROP POLICY IF EXISTS of
\* the same policy, DROP TRIGGER IF EXISTS of the same trigger, REVOKE ALL
\* ... FROM the same grantee.
C2_CleanupPrecedes ==
    Written =>
        LET sts == WrittenStatements
            Cleanup(kind) ==
                CASE kind = "create policy" -> "drop policy"
                  [] kind = "create trigger" -> "drop trigger"
                  [] OTHER -> "revoke"
        IN  \A i \in 1..Len(sts) :
                sts[i].kind \in {"create policy", "create trigger", "grant"} =>
                    \E j \in 1..(i - 1) :
                        /\ sts[j].kind = Cleanup(sts[i].kind)
                        /\ sts[j].name = sts[i].name
                        /\ sts[j].table = sts[i].table

\* C6: a file generated with role_mappings holds the name of no mapped role
\* (a table that bears the name of a role set aside): every occurrence of
\* the role has become its placeholder.
C6_NoRoleNameLeft ==
    Written =>
        \A k \in 1..Len(roleMappings) :
            LET role == roleMappings[k].role
            IN  role # tableInput.table =>
                    ~\E i \in 1..Len(sqlContent) :
                        /\ i + Len(role) - 1 <= Len(sqlContent)
                        /\ SubSeq(sqlContent, i, i + Len(role) - 1) = role

\* the lines of the written file
WrittenLines == Lines(sqlContent)

\* C11: the file of a table holds no two identical GRANT statements, even
\* when the grant rows repeat a grantee, privilege and grantable flag (rows
\* that differ by their grantor only).
C11_NoRepeatedGrant ==
    Written =>
        LET lines == StatementLines(sqlContent)
        IN  \A i, j \in 1..Len(lines) :
                (i < j /\ StartsWith(lines[i], <<"GRANT">>)) => lines[i] # lines[j]

\* C12: the documentation of a table lists each constraint at most once,
\* even when the constraint query returns several rows for a constraint.
C12_ConstraintListedOnce ==
    Written =>
        \A k \in 1..Len(tableInput.constraints) :
            LET entry == Bullet \o tableInput.constraints[k].constraint_name \o <<":">>
            IN  Cardinality({ i \in 1..Len(WrittenLines) :
                                StartsWith(WrittenLines[i], entry) }) <= 1

----------------------------------------------------------------------------
(* The files export() writes, as text.                                     *)

\* generateFunctionSQL: header, the definition PostgreSQL returns, COMMENT ON
\* when there is a comment, GRANT EXECUTE for the configured roles, joined
\* with "\n", then the role mappings when there is one
generateFunctionSQL(func, roles, mappings, includeDate) ==
    LET signature == Qualified(func.schema_name, func.function_name)
                        \o <<"(">> \o func.function_arguments \o <<")">>
        lines ==
            << RuleLine,
               <<"-", "-", " ", "Function", ":", " ">>
                   \o Qualified(func.schema_name, func.function_name),
               <<"-", "-", " ", "Generated", " ", "by", " ", "Tablerizer", " ", "{dice}">> >>
            \o (IF includeDate
                THEN << <<"-", "-", " ", "Date", ":", " ">> \o IsoDate >> ELSE <<>>)
            \o << RuleLine,
                  <<"-", "-", " ", "Type", ":", " ">> \o func.function_type,
                  <<"-", "-", " ", "Language", ":", " ">> \o func.language >>
            \o (IF func.comment # <<>>
                THEN << <<"-", "-", " ", "Comment", ":", " ">> \o func.comment >> ELSE <<>>)
            \o (IF Len(roles) > 0
                THEN << <<"-", "-", " ", "Grants", " ", "for", " ", "roles", ":", " ">>
                           \o Join(roles, <<",", " ">>) >>
                ELSE <<>>)
            \o << <<>>, func.function_definition >>
            \o (IF func.comment # <<>>
                THEN << <<>>,
                        <<"COMMENT", " ", "ON", " ", "FUNCTION", " ">> \o signature
                            \o <<" ", "IS", " ">>
                            \o (IF Has(func.comment, "'")
                                THEN <<"$", "$">> \o func.comment \o <<"$", "$">>
                                ELSE <<"'">> \o func.comment \o <<"'">>)
                            \o <<";">> >>
                ELSE <<>>)
            \o (IF Len(roles) > 0
                THEN << <<>>,
                        <<"-", "-", " ", "Grant", " ", "execution", " ", "permissions">> >>
                     \o [i \in 1..Len(roles) |->
                            <<"GRANT", " ", "EXECUTE", " ", "ON", " ", "FUNCTION", " ">>
                                \o signature \o <<" ", "TO", " ">> \o Escape(roles[i])
                                \o <<";">>]
                ELSE <<>>)
        text == Join(lines, <<"\n">>)
    IN  IF Len(mappings) > 0 THEN applyRoleMappings(text, mappings) ELSE text

\* the TableData getTableData returns for a table of the catalogs above,
\* which hold no grant, policy, trigger, column or constraint
TableDataOf(tableName) ==
    [table |-> <<tableName>>,
     rbac |-> [table_grants |-> <<>>, column_grants |-> <<>>],
     rls |-> [enabled |-> FALSE, force |-> FALSE, policies |-> <<>>],
     triggers |-> <<>>, columns |-> <<>>, constraints |-> <<>>, comment |-> <<>>]

\* the FunctionInfo getFunctions returns for a function of the catalogs above
FunctionInfoOf(func) ==
    [schema_name |-> <<func.schema>>, function_name |-> <<func.name>>,
     function_type |-> <<IF func.prokind = "f" THEN "FUNCTION" ELSE "PROCEDURE">>,
     language |-> <<"plpgsql">>, comment |-> <<>>, function_arguments |-> <<>>,
     function_definition |->
         <<"CREATE", " ", "OR", " ", "REPLACE", " ", "FUNCTION", " ",
           func.schema, ".", func.name, "(", ")">>]

\* the text of a file export() wrote: generateTableSQL or generateFunctionSQL
\* on what the content was made from (export, lines 145-150 and 188-193)
FileText(c) ==
    IF c.type = "table"
    THEN generateTableSQL(<<c.schema>>, TableDataOf(c.name), c.role_mappings, c.include_date)
    ELSE generateFunctionSQL(FunctionInfoOf([schema |-> c.schema, name |-> c.name,
                                             oid |-> c.oid, prokind |-> "f"]),
                             c.roles, c.role_mappings, c.include_date)

\* the header of a file: its lines up to the first empty line
Header(text) ==
    LET lines == Lines(text)
        stops == { i \in 1..Len(lines) : lines[i] = <<>> }
        stop  == IF stops = {} THEN Len(lines) + 1
                 ELSE CHOOSE i \in stops : \A j \in stops : i <= j
    IN  SubSeq(lines, 1, stop - 1)

HasDateLine(text) ==
    \E i \in 1..Len(Header(text)) :
        StartsWith(Header(text)[i], <<"-", "-", " ", "Date", ":", " ">>)

\* the include_date in force: the one of the last configure() that gave one,
\* false when none did (the constructor options above give none)
RECURSIVE DateInForce(_)
DateInForce(n) ==
    IF n = 0 THEN FALSE
    ELSE IF calls[n].op = "configure" /\ calls[n].arg.include_date.some
         THEN calls[n].arg.include_date.val
         ELSE DateInForce(n - 1)

\* export call i ran alone under the configuration now in force: no other
\* export shares the output directory, no configure() came after it started
RanUnderOptions(i) ==
    /\ i \in Returned
    /\ \A j \in 1..Len(calls) :
          /\ (j # i) => calls[j].op # "export"
          /\ (j > i) => calls[j].op # "configure"

\* C13: a generated file carries a "-- Date:" header line if and only if
\* include_date is true in the configuration in force when export() runs;
\* include_date is false unless configured, and configure({include_date:
\* false}) after an earlier true turns it off again.
C13_DateHeader ==
    /\ options.include_date = Some(DateInForce(Len(calls)))
    /\ \A i \in 1..Len(calls) :
          RanUnderOptions(i) =>
              \A k \in 1..Len(calls[i].result.val.files) :
                  HasDateLine(FileText(disk[calls[i].result.val.files[k].filePath]))
                      <=> options.include_date.val

\* an export ran after configure({include_date: true}) then
\* configure({include_date: false}) and wrote a file, without the line
C13_Witness ==
    /\ Len(calls) = 3
    /\ calls[1].op = "configure" /\ calls[1].arg.include_date = Some(TRUE)
    /\ calls[2].op = "configure" /\ calls[2].arg.include_date = Some(FALSE)
    /\ RanUnderOptions(3)
    /\ Len(calls[3].result.val.files) > 0
    /\ ~HasDateLine(FileText(disk[calls[3].result.val.files[1].filePath]))

\* an export ran after configure({include_date: true}) and wrote a file
\* that has the line
C13_WitnessOn ==
    \E i \in 1..Len(calls) :
        /\ RanUnderOptions(i)
        /\ options.include_date = Some(TRUE)
        /\ Len(calls[i].result.val.files) > 0
        /\ HasDateLine(FileText(disk[calls[i].result.val.files[1].filePath]))

----------------------------------------------------------------------------
(* index.ts: exportTable and exportFunction, and the module-level          *)
(* functions that make an instance, call one method and disconnect.        *)

\* the frame of exportTable(schema, name, outputPath) or of
\* exportFunction(schema, name, outputPath); no outputPath is <<>>
SingleFrame(op, schema, name, outputPath) ==
    [NewFrame(op) EXCEPT !.schemas = <<schema>>, !.sIdx = 1, !.name = name,
                         !.filePath = outputPath]

\* exportTable, line 248, and exportFunction, line 282: the catalog is read
SingleQuery(f) ==
    Query(f, IF f.op = "exportTable" THEN "tableData" ELSE "listFunctions")

\* what a method does once it has a connection
AfterConnect(f) == IF f.op = "export" THEN Setup(f) ELSE SingleQuery(f)

\* CallMethod with the connection made before the configuration is looked at
CallMethodConnectFirst(before, f, opts) ==
    IF connection = 0
    THEN /\ conns' = Append(conns, "connecting")
         /\ connection' = Len(conns) + 1
         /\ calls' = Append(before,
                            IF validateConfig(opts) # ""
                            THEN Throw([f EXCEPT !.conn = Len(conns) + 1],
                                       validateConfig(opts))
                            ELSE [f EXCEPT !.pc = "connect", !.conn = Len(conns) + 1])
    ELSE /\ calls' = Append(before, IF validateConfig(opts) # ""
                                    THEN Throw(f, validateConfig(opts))
                                    ELSE AfterConnect(f))
         /\ UNCHANGED <<connection, conns>>

\* export, exportTable and exportFunction up to their first await (lines
\* 87-91, 241-245, 275-279): validateConfig(this.options), then
\* await this.connect() when there is no connection
CallMethod(before, f, opts) ==
    IF validateConfig(opts) # ""
    THEN /\ calls' = Append(before, Throw(f, validateConfig(opts)))
         /\ UNCHANGED <<connection, conns>>
    ELSE IF connection = 0
    THEN /\ conns' = Append(conns, "connecting")
         /\ connection' = Len(conns) + 1
         /\ calls' = Append(before, [f EXCEPT !.pc = "connect",
                                              !.conn = Len(conns) + 1])
    ELSE /\ calls' = Append(before, AfterConnect(f))
         /\ UNCHANGED <<connection, conns>>

\* exportTable and exportFunction: return sqlContent, after the file is
\* written when an outputPath is given
AfterContent(f) ==
    IF f.filePath # <<>> THEN [f EXCEPT !.pc = "mkdir"] ELSE [f EXCEPT !.pc = "done"]

\* exportTable or exportFunction resumes from await this.connect()
SingleConnected(i) ==
    /\ calls[i].op \in {"exportTable", "exportFunction"} /\ calls[i].pc = "connect"
    /\ conns' = [conns EXCEPT ![calls[i].conn] = IF @ = "connecting" THEN "open" ELSE @]
    /\ calls' = [calls EXCEPT ![i] = SingleQuery(calls[i])]
    /\ UNCHANGED <<db, options, connection, disk>>
    /\ UNCHANGED <<cfgVars, genVars>>

\* ExportTableGot with the file written before the table is looked for
ExportTableGotWrites(i) ==
    /\ calls[i].op = "exportTable" /\ calls[i].pc = "tableData"
    /\ conns[calls[i].conn] # "closed"
    /\ LET f == calls[i]
       IN  IF tableInfo(db, CurrentSchema(f), f.name) = {}
           THEN /\ calls' = [calls EXCEPT ![i] =
                                Throw(f, TableNotFound(CurrentSchema(f), f.name))]
                /\ disk' = IF f.filePath # <<>>
                           THEN WriteFile(disk, f.filePath, NoContent) ELSE disk
           ELSE /\ calls' = [calls EXCEPT ![i] = AfterContent([f EXCEPT
                                !.content = TableContent(CurrentSchema(f), f.name)])]
                /\ disk' = disk
    /\ UNCHANGED <<db, options, connection, conns>>
    /\ UNCHANGED <<cfgVars, genVars>>

\* exportTable resumes from await this.getTableData(schema, tableName)
ExportTableGot(i) ==
    /\ calls[i].op = "exportTable" /\ calls[i].pc = "tableData"
    /\ conns[calls[i].conn] # "closed"
    /\ LET f == calls[i]
       IN  calls' = [calls EXCEPT ![i] =
                IF tableInfo(db, CurrentSchema(f), f.name) = {}
                THEN Throw(f, TableNotFound(CurrentSchema(f), f.name))
                ELSE AfterContent([f EXCEPT
                        !.content = TableContent(CurrentSchema(f), f.name)])]
    /\ UNCHANGED <<db, options, connection, conns, disk>>
    /\ UNCHANGED <<cfgVars, genVars>>

\* exportFunction resumes from await this.getFunctions(schema):
\* functions.find((f) => f.function_name === functionName)
ExportFunctionGot(i) ==
    /\ calls[i].op = "exportFunction" /\ calls[i].pc = "listFunctions"
    /\ conns[calls[i].conn] # "closed"
    /\ LET f == calls[i]
           functions == getFunctions(db, CurrentSchema(f))
           found == { k \in 1..Len(functions) : functions[k].name = f.name }
       IN  calls' = [calls EXCEPT ![i] =
                IF found = {}
                THEN Throw(f, FunctionNotFound(CurrentSchema(f), f.name))
                ELSE AfterContent([f EXCEPT !.content = FunctionContent(
                        functions[CHOOSE k \in found : \A q \in found : k <= q])])]
    /\ UNCHANGED <<db, options, connection, conns, disk>>
    /\ UNCHANGED <<cfgVars, genVars>>

\* exportTable or exportFunction resumes from await fs.mkdir(dirname)
SingleMkdir(i) ==
    /\ calls[i].op \in {"exportTable", "exportFunction"} /\ calls[i].pc = "mkdir"
    /\ calls' = [calls EXCEPT ![i].pc = "write"]
    /\ UNCHANGED <<db, options, connection, conns, disk>>
    /\ UNCHANGED <<cfgVars, genVars>>

\* exportTable or exportFunction resumes from await fs.writeFile
SingleWrite(i) ==
    /\ calls[i].op \in {"exportTable", "exportFunction"} /\ calls[i].pc = "write"
    /\ disk' = WriteFile(disk, calls[i].filePath, calls[i].content)
    /\ calls' = [calls EXCEPT ![i].pc = "done"]
    /\ UNCHANGED <<db, options, connection, conns>>
    /\ UNCHANGED <<cfgVars, genVars>>

\* the promise a method awaits is rejected (the server refuses the
\* connection, a query fails, the file system refuses): the method throws.
\* this.connection stays assigned when client.connect() is what failed.
AwaitRejects(i) ==
    /\ calls[i].op \in {"export", "exportTable", "exportFunction"}
    /\ calls[i].pc \notin {"start", "done"}
    /\ conns' = IF calls[i].pc = "connect"
                THEN [conns EXCEPT ![calls[i].conn] = "failed"] ELSE conns
    /\ calls' = [calls EXCEPT ![i] = Throw(calls[i], "rejected")]
    /\ UNCHANGED <<db, options, connection, disk>>
    /\ UNCHANGED <<cfgVars, genVars>>

\* the module-level functions exportTables, exportFunctions, exportTable
\* and exportFunction, and the method each one calls
Wrappers ==
    {"module.exportTables", "module.exportFunctions",
     "module.exportTable", "module.exportFunction"}

MethodOf(wrapper) ==
    IF wrapper \in {"module.exportTables", "module.exportFunctions"} THEN "export"
    ELSE IF wrapper = "module.exportTable" THEN "exportTable"
    ELSE "exportFunction"

\* the arguments of the single exports: a table, a function, a name the
\* catalog does not hold; no outputPath or a file
SingleNames == {"users", "create_post", "nothing"}
OutputPaths == { <<>>, <<"out.sql">> }

\* the try block ended without the finally block: an error leaves at once
AfterTryNoFinally(w, m) ==
    IF m.error # "" THEN [w EXCEPT !.pc = "done", !.error = m.error]
    ELSE [w EXCEPT !.pc = "finally"]

\* the try block of a module-level function ended, by return or by throw:
\* finally { await tablerizer.disconnect() }
AfterTry(w, m) == [w EXCEPT !.pc = "finally"]

\* a module-level function is called: new Tablerizer(options), then the
\* method runs to its first await
WrapStart ==
    /\ calls = <<>>
    /\ \E wrapper \in Wrappers, o \in ConstructorOptions,
          name \in SingleNames, outputPath \in OutputPaths :
          LET given == IF wrapper = "module.exportFunctions"
                       THEN [o EXCEPT !.scope = Some(ScopeOf("functions"))]
                       ELSE o
              w == [NewFrame(wrapper) EXCEPT !.pc = "try", !.arg = given]
              m == IF MethodOf(wrapper) = "export" THEN NewFrame("export")
                   ELSE SingleFrame(MethodOf(wrapper), "app_public", name, outputPath)
          IN  /\ options' = mergeConfigs(getDefaultConfig, given)
              /\ CallMethod(<<w>>, m, options')
    /\ UNCHANGED <<db, disk>>
    /\ UNCHANGED <<cfgVars, genVars>>

\* the method has returned or thrown: the finally block calls disconnect()
WrapFinally ==
    /\ Len(calls) = 2
    /\ calls[1].op \in Wrappers /\ calls[1].pc = "try"
    /\ calls[2].pc = "done"
    /\ LET w == AfterTry(calls[1], calls[2])
       IN  calls' = IF w.pc # "finally" THEN <<w, calls[2]>>
                    ELSE <<w, calls[2],
                           IF connection # 0
                           THEN [NewFrame("disconnect") EXCEPT
                                    !.pc = "disconnect", !.conn = connection]
                           ELSE [NewFrame("disconnect") EXCEPT !.pc = "done"]>>
    /\ UNCHANGED <<db, options, connection, conns, disk>>
    /\ UNCHANGED <<cfgVars, genVars>>

\* disconnect() has returned: the function returns what the method
\* returned, or throws what it threw
WrapDone ==
    /\ Len(calls) = 3
    /\ calls[1].op \in Wrappers /\ calls[1].pc = "finally"
    /\ calls[3].pc = "done"
    /\ calls' = [calls EXCEPT ![1] = [calls[1] EXCEPT !.pc = "done",
                                                      !.error = calls[2].error,
                                                      !.content = calls[2].content,
                                                      !.result = calls[2].result]]
    /\ UNCHANGED <<db, options, connection, conns, disk>>
    /\ UNCHANGED <<cfgVars, genVars>>

InitWrap ==
    /\ ConfigIdle
    /\ GeneratorIdle
    /\ db \in Databases
    /\ options = getDefaultConfig
    /\ connection = 0
    /\ conns = <<>>
    /\ calls = <<>>
    /\ disk = <<>>

NextWrap ==
    \/ WrapStart
    \/ WrapFinally
    \/ WrapDone
    \/ \E i \in 1..Len(calls) :
          \/ DisconnectDone(i)
          \/ ExportConnected(i)
          \/ ExportMkdirBase(i)
          \/ ExportMkdirSchema(i)
          \/ ExportCountTables(i)
          \/ ExportCountFunctions(i)
          \/ ExportListTables(i)
          \/ ExportTableData(i)
          \/ ExportListFunctions(i)
          \/ ExportWriteFunction(i)
          \/ SingleConnected(i)
          \/ ExportTableGot(i)
          \/ ExportFunctionGot(i)
          \/ SingleMkdir(i)
          \/ SingleWrite(i)
          \/ AwaitRejects(i)

SpecWrap == InitWrap /\ [][NextWrap]_vars

----------------------------------------------------------------------------
(* Claims about one export() call.                                         *)

\* the calls of the progress callback an export made for a schema, in order
ProgressOf(f, schema) == SelectSeq(f.progress, LAMBDA p : p.schema = schema)

\* the entries of a files array for a schema, in order
FilesOf(files, schema) == SelectSeq(files, LAMBDA e : e.schema = schema)

\* C15: for each schema, export() invokes the progress callback exactly once
\* per exported table and function, with the same total in every call for
\* that schema and with progress taking the values 1, 2, ..., total in that
\* order; progress never exceeds total.
C15_ProgressCounts ==
    \A i \in 1..Len(calls) :
        calls[i].op = "export" =>
            \A schema \in SchemasOf(calls[i]) :
                LET reports == ProgressOf(calls[i], schema)
                    written == IF calls[i].result.some
                               THEN FilesOf(calls[i].result.val.files, schema)
                               ELSE <<>>
                IN  /\ \A k \in 1..Len(reports) :
                          /\ reports[k].progress = k
                          /\ reports[k].total = reports[1].total
                          /\ reports[k].progress <= reports[k].total
                    /\ calls[i].result.some =>
                          /\ Len(reports) = Len(written)
                          /\ \A k \in 1..Len(reports) :
                                /\ reports[k].table = written[k].name
                                /\ reports[k].total = Len(reports)

\* an export has returned after reporting a table and then a function of
\* one schema
C15_Witness ==
    \E i \in Returned :
        LET reports == ProgressOf(calls[i], "app_public")
            written == FilesOf(calls[i].result.val.files, "app_public")
        IN  /\ Len(reports) >= 2
            /\ written[1].type = "table"
            /\ written[Len(written)].type = "function"
            /\ reports[Len(reports)].progress = reports[Len(reports)].total

----------------------------------------------------------------------------
(* A caller that awaits every call before it makes the next one, as the    *)
(* tests do: configure, connect, export, exportTable, exportFunction and   *)
(* disconnect in any order on one instance.                                *)

MaxSeq == 4

\* every call made so far has returned or thrown
Sequential == \A i \in 1..Len(calls) : calls[i].pc = "done"

\* configure() with a schema list: an empty array is truthy, so
\* mergeConfigs takes it
SchemaLists == { <<>>, <<" ">>, <<"app_public">> }

SeqConfigure ==
    /\ Sequential /\ Len(calls) < MaxSeq
    /\ \E list \in SchemaLists :
          LET o == [NoOptions EXCEPT !.schemas = Some(list)]
          IN  /\ options' = mergeConfigs(options, o)
              /\ calls' = Append(calls, [NewFrame("configure") EXCEPT
                                            !.pc = "done", !.arg = o])
    /\ UNCHANGED <<db, connection, conns, disk>>
    /\ UNCHANGED <<cfgVars, genVars>>

SeqConnect ==
    /\ Sequential /\ Len(calls) < MaxSeq
    /\ IF ~TruthyName(options.database_url)
       THEN /\ calls' = Append(calls, Throw(NewFrame("connect"),
                                  "Database connection string is required"))
            /\ UNCHANGED <<connection, conns>>
       ELSE /\ conns' = Append(conns, "connecting")
            /\ connection' = Len(conns) + 1
            /\ calls' = Append(calls, [NewFrame("connect") EXCEPT
                                          !.pc = "connect", !.conn = Len(conns) + 1])
    /\ UNCHANGED <<db, options, disk>>
    /\ UNCHANGED <<cfgVars, genVars>>

SeqDisconnect ==
    /\ Sequential /\ Len(calls) < MaxSeq
    /\ calls' = Append(calls,
                       IF connection # 0
                       THEN [NewFrame("disconnect") EXCEPT
                                !.pc = "disconnect", !.conn = connection]
                       ELSE [NewFrame("disconnect") EXCEPT !.pc = "done"])
    /\ UNCHANGED <<db, options, connection, conns, disk>>
    /\ UNCHANGED <<cfgVars, genVars>>

SeqExport ==
    /\ Sequential /\ Len(calls) < MaxSeq
    /\ CallMethod(calls, NewFrame("export"), options)
    /\ UNCHANGED <<db, options, disk>>
    /\ UNCHANGED <<cfgVars, genVars>>

SeqExportSingle ==
    /\ Sequential /\ Len(calls) < MaxSeq
    /\ \E op \in {"exportTable", "exportFunction"}, name \in {"users", "create_post"} :
          CallMethod(calls, SingleFrame(op, "app_public", name, <<"out.sql">>), options)
    /\ UNCHANGED <<db, options, disk>>
    /\ UNCHANGED <<cfgVars, genVars>>

\* the catalogs of the sequential runs: two schemas with a function, and
\* the whole test database with its overloaded function
SeqDatabases ==
    { [relations |-> {Users, UserSecrets},
       functions |-> {Func("app_public", "create_post", 1)}],
      [relations |-> {Users, Sales, Sales2023, UserStats, UserSecrets},
       functions |-> {Func("app_public", "get_user_post_count", 1),
                      Func("app_public", "get_user_post_count", 2)}] }

InitSeq ==
    /\ ConfigIdle
    /\ GeneratorIdle
    /\ db \in SeqDatabases
    /\ \E o \in ConstructorOptions : options = mergeConfigs(getDefaultConfig, o)
    /\ connection = 0
    /\ conns = <<>>
    /\ calls = <<>>
    /\ disk = <<>>

NextSeq ==
    \/ SeqConfigure
    \/ SeqConnect
    \/ SeqDisconnect
    \/ SeqExport
    \/ SeqExportSingle
    \/ \E i \in 1..Len(calls) :
          \/ ConnectDone(i)
          \/ DisconnectDone(i)
          \/ ExportConnected(i)
          \/ ExportMkdirBase(i)
          \/ ExportMkdirSchema(i)
          \/ ExportCountTables(i)
          \/ ExportCountFunctions(i)
          \/ ExportListTables(i)
          \/ ExportTableData(i)
          \/ ExportListFunctions(i)
          \/ ExportWriteFunction(i)
          \/ SingleConnected(i)
          \/ ExportTableGot(i)
          \/ ExportFunctionGot(i)
          \/ SingleMkdir(i)
          \/ SingleWrite(i)

SpecSeq == InitSeq /\ [][NextSeq]_vars

\* the methods that validate the configuration before anything else
Methods == {"export", "exportTable", "exportFunction"}

\* the step is a call of one of the methods
Called(ops) ==
    /\ Len(calls') = Len(calls) + 1
    /\ calls'[Len(calls')].op \in ops

\* the message for an invalid configuration, "" for a valid one: the empty
\* list first, then the missing URL, then the blank name
Rejection(config) ==
    IF Len(config.schemas.val) = 0
    THEN "At least one schema must be specified"
    ELSE IF ~config.database_url.some \/ config.database_url.val = ""
    THEN "Database URL must be provided"
    ELSE IF \E k \in 1..Len(config.schemas.val) : config.schemas.val[k] \in {"", " "}
    THEN "Schema names cannot be empty"
    ELSE ""

C16_Step ==
    (Called(Methods) /\ Rejection(options) # "") =>
        LET f == calls'[Len(calls')]
        IN  /\ f.pc = "done"
            /\ f.error = Rejection(options)
            /\ f.conn = 0 /\ f.files = <<>> /\ ~f.result.some
            /\ UNCHANGED <<connection, conns, disk>>

\* C16: export(), exportTable() and exportFunction() reject an invalid
\* configuration before any side effect: they throw 'At least one schema
\* must be specified' for an empty schema list, 'Database URL must be
\* provided' for a missing database_url and 'Schema names cannot be empty'
\* for a blank schema name, and no connection is opened, no query is run
\* and no file or directory is written.
C16_RejectsFirst == [][C16_Step]_vars

\* a method has rejected the configuration on an instance that holds an
\* open connection and has written files
C16_Witness ==
    /\ Len(calls) > 0
    /\ calls[Len(calls)].op \in Methods
    /\ calls[Len(calls)].error = "At least one schema must be specified"
    /\ connection # 0 /\ conns[connection] = "open"
    /\ DOMAIN disk # {}

\* the other two rejections, on an instance without a connection
C16_WitnessUrl ==
    \E i \in 1..Len(calls) :
        calls[i].op = "exportTable" /\ calls[i].error = "Database URL must be provided"

C16_WitnessBlank ==
    \E i \in 1..Len(calls) :
        calls[i].op = "exportFunction" /\ calls[i].error = "Schema names cannot be empty"

C17_Step ==
    /\ (Called({"export"}) /\ Rejection(options) = "") =>
          LET f == calls'[Len(calls')]
          IN  IF connection = 0
              THEN /\ conns' = Append(conns, "connecting")
                   /\ connection' = Len(conns')
                   /\ f.pc = "connect" /\ f.conn = connection'
              ELSE /\ UNCHANGED <<connection, conns>>
                   /\ f.pc # "connect"
    /\ \A i \in 1..Len(calls) :
          (calls[i].pc # "done" /\ calls'[i].pc = "done") =>
              /\ calls[i].op = "disconnect" =>
                    connection' = 0 /\ conns'[calls[i].conn] = "closed"
              /\ calls[i].op = "export" =>
                    calls'[i].result.some /\ calls'[i].error = ""

\* C17: export() opens a connection itself when the instance has none and
\* reuses the existing connection otherwise; after disconnect() the instance
\* holds no connection, so the sequence export, disconnect, export,
\* disconnect succeeds with the second export connecting afresh.
C17_ConnectsWhenNeeded == [][C17_Step]_vars

\* export, disconnect, export, disconnect have run in this order: both
\* exports returned, each over a connection of its own, both closed
C17_Witness ==
    /\ Len(calls) = 4 /\ Sequential
    /\ calls[1].op = "export" /\ calls[1].result.some /\ calls[1].conn = 1
    /\ calls[2].op = "disconnect" /\ calls[2].conn = 1
    /\ calls[3].op = "export" /\ calls[3].result.some /\ calls[3].conn = 2
    /\ calls[3].result.val.totalFiles > 0
    /\ calls[4].op = "disconnect" /\ calls[4].conn = 2
    /\ connection = 0
    /\ conns = <<"closed", "closed">>

\* the function entries of a files array, as indexes
FunctionEntries(files) == { k \in 1..Len(files) : files[k].type = "function" }

\* the only export call made on the instance
OnlyExport(i) ==
    \A j \in 1..Len(calls) : (j # i) => calls[j].op # "export"

----------------------------------------------------------------------------
(* generateTriggersSQL and generateColumnGrantsSQL called on rows: every   *)
(* choice of up to MaxRows rows of a pool, in every order.                 *)

MaxRows == 3

\* the sequences of up to n different elements of a set
SeqsOf(pool, n) ==
    { rows \in UNION { [1..k -> pool] : k \in 0..n } :
        \A i, j \in 1..Len(rows) : (i # j) => rows[i] # rows[j] }

\* rows of information_schema.triggers: two triggers of two events each
TriggerPool ==
    { TriggerRow("audit", "AFTER", "DELETE", "STATEMENT", "audit_log", <<>>),
      TriggerRow("audit", "AFTER", "INSERT", "STATEMENT", "audit_log", <<>>),
      TriggerRow("set_updated_at", "BEFORE", "INSERT", "ROW", "touch", <<"true">>),
      TriggerRow("set_updated_at", "BEFORE", "UPDATE", "ROW", "touch", <<"true">>) }

\* a role whose name holds a colon (CREATE ROLE "app:reader")
RoleReader == <<"app", ":", "reader">>

\* rows of information_schema.column_privileges: a column granted twice
\* under one combination (by two grantors), two columns under one
\* combination, a grant with the grant option, a grant to RoleReader
ColumnGrantPool ==
    { ColumnGrant("email", <<"postgres">>, RoleVisitor, "UPDATE", FALSE),
      ColumnGrant("email", <<"owner">>, RoleVisitor, "UPDATE", FALSE),
      ColumnGrant("name", <<"postgres">>, RoleVisitor, "UPDATE", FALSE),
      ColumnGrant("email", <<"postgres">>, RoleAdmin, "UPDATE", TRUE),
      ColumnGrant("email", <<"postgres">>, RoleReader, "SELECT", FALSE) }

InitRows ==
    /\ ConfigIdle
    /\ InstanceIdle
    /\ \E t \in SeqsOf(TriggerPool, MaxRows), g \in SeqsOf(ColumnGrantPool, MaxRows) :
          tableInput = [TableDataOf("users") EXCEPT !.triggers = t,
                                                    !.rbac.column_grants = g]
    /\ roleMappings = <<>>
    /\ sqlContent = <<>>
    /\ psqlVars = <<>>
    /\ script = <<>>
    /\ target = <<>>
    /\ runs = <<>>

\* generateTriggersSQL(schema, table, triggers).join("\n")
GenerateTriggers ==
    /\ sqlContent' = Join(generateTriggersSQL(PublicSchema, tableInput.table,
                                              tableInput.triggers), <<"\n">>)
    /\ UNCHANGED <<tableInput, roleMappings, psqlVars, script, target, runs>>
    /\ UNCHANGED <<cfgVars, instVars>>

\* generateColumnGrantsSQL(schema, table, column_grants).join("\n")
GenerateColumnGrants ==
    /\ sqlContent' = Join(generateColumnGrantsSQL(PublicSchema, tableInput.table,
                                                  tableInput.rbac.column_grants),
                          <<"\n">>)
    /\ UNCHANGED <<tableInput, roleMappings, psqlVars, script, target, runs>>
    /\ UNCHANGED <<cfgVars, instVars>>

NextRows ==
    \/ GenerateTriggers
    \/ GenerateColumnGrants

SpecRows == InitRows /\ [][NextRows]_vars

\* what makes two rows rows of one trigger
TriggerIdentity(t) ==
    [trigger_name |-> t.trigger_name, action_timing |-> t.action_timing,
     action_orientation |-> t.action_orientation,
     action_statement |-> t.action_statement,
     action_condition |-> t.action_condition]

\* the events of the rows of a trigger, sorted
EventsOf(rows, d) ==
    SelectSeq(EventOrder,
              LAMBDA e : \E i \in 1..Len(rows) :
                            /\ TriggerIdentity(rows[i]) = d
                            /\ rows[i].event_manipulation = e)

\* the CREATE TRIGGER statement of a trigger with a list of events
TriggerStatement(d, events) ==
    <<"CREATE", " ", "TRIGGER", " ">> \o d.trigger_name \o <<" ">> \o d.action_timing
        \o <<" ">> \o Join([i \in 1..Len(events) |-> <<events[i]>>], <<" ", "OR", " ">>)
        \o <<" ", "ON", " ">> \o PublicSchema \o <<".">> \o tableInput.table
        \o <<" ", "FOR", " ", "EACH", " ">> \o d.action_orientation
        \o (IF d.action_condition # <<>>
            THEN <<" ", "WHEN", " ", "(">> \o d.action_condition \o <<")">> ELSE <<>>)
        \o <<" ">> \o d.action_statement \o <<";">>

TriggersGenerated == sqlContent # <<>> /\ sqlContent[1] = "CREATE"

\* C19: generateTriggersSQL emits exactly one CREATE TRIGGER statement per
\* distinct trigger (rows with the same name, timing, orientation, action
\* statement and condition), whose event list is all the events of that
\* trigger's rows in sorted order joined by ' OR ', and the statements appear
\* ordered by trigger name.
C19_OneStatementPerTrigger ==
    TriggersGenerated =>
        LET rows == tableInput.triggers
            out  == Lines(sqlContent)
            ids  == { TriggerIdentity(rows[i]) : i \in 1..Len(rows) }
        IN  /\ Len(out) = Cardinality(ids)
            /\ \A d \in ids :
                  Cardinality({ i \in 1..Len(out) :
                                  out[i] = TriggerStatement(d, EventsOf(rows, d)) }) = 1
            /\ \A i, j \in 1..Len(out) :
                  (i < j) => IdentRank(<<out[i][5]>>) <= IdentRank(<<out[j][5]>>)

\* three rows given out of order (UPDATE of set_updated_at, a row of audit,
\* INSERT of set_updated_at) came out as two statements, audit first, the
\* second with INSERT OR UPDATE
C19_Witness ==
    /\ TriggersGenerated
    /\ Len(tableInput.triggers) = 3
    /\ tableInput.triggers[1].trigger_name = <<"set_updated_at">>
    /\ tableInput.triggers[1].event_manipulation = "UPDATE"
    /\ tableInput.triggers[2].trigger_name = <<"audit">>
    /\ tableInput.triggers[3].event_manipulation = "INSERT"
    /\ Len(Lines(sqlContent)) = 2
    /\ Lines(sqlContent)[1][5] = "audit"
    /\ SubSeq(Lines(sqlContent)[2], 9, 13) = <<"INSERT", " ", "OR", " ", "UPDATE">>

\* a combination of grantee, privilege and grantable flag
Combination(g) ==
    [grantee |-> g.grantee, privilege |-> g.privilege, is_grantable |-> g.is_grantable]

\* the columns granted under a combination
ColumnsOf(rows, c) ==
    { rows[i].column_name : i \in { k \in 1..Len(rows) : Combination(rows[k]) = c } }

\* the orders in which the elements of a set can be listed, each once
Orders(S) ==
    { cs \in [1..Cardinality(S) -> S] :
        \A i, j \in 1..Cardinality(S) : (i # j) => cs[i] # cs[j] }

\* the GRANT statement of a combination with its columns in an order
ColumnGrantStatement(c, cs) ==
    <<"GRANT", " ">> \o c.privilege \o <<" ", "(">>
        \o Join([i \in 1..Len(cs) |-> Escape(cs[i])], <<",", " ">>)
        \o <<")", " ", "ON", " ", "TABLE", " ">> \o PublicSchema \o <<".">> \o tableInput.table
        \o <<" ", "TO", " ">> \o Escape(c.grantee)
        \o (IF c.is_grantable THEN <<" ", "WITH", " ", "GRANT", " ", "OPTION">> ELSE <<>>)
        \o <<";">>

ColumnGrantsGenerated == sqlContent # <<>> /\ sqlContent[1] = "GRANT"

\* the statements are the ones of the combinations of the rows
OneGrantPerCombination ==
    LET rows   == tableInput.rbac.column_grants
        out    == Lines(sqlContent)
        combos == { Combination(rows[i]) : i \in 1..Len(rows) }
    IN  /\ Len(out) = Cardinality(combos)
        /\ \A c \in combos :
              Cardinality({ i \in 1..Len(out) :
                              \E cs \in Orders(ColumnsOf(rows, c)) :
                                  out[i] = ColumnGrantStatement(c, cs) }) = 1

\* C20: generateColumnGrantsSQL emits exactly one GRANT statement per
\* distinct combination of grantee, privilege and grantable flag among the
\* column-grant rows; that statement names exactly that grantee and
\* privilege, carries WITH GRANT OPTION if and only if the flag is true, and
\* lists each column granted under the combination exactly once.
C20_OneGrantPerCombination == ColumnGrantsGenerated => OneGrantPerCombination

\* the same, for rows whose grantees have no colon in their names
C20_WithoutColon ==
    (/\ ColumnGrantsGenerated
     /\ \A i \in 1..Len(tableInput.rbac.column_grants) :
           ~Has(tableInput.rbac.column_grants[i].grantee, ":"))
        => OneGrantPerCombination

\* the calls of exportTable and exportFunction for a name the schema does
\* not hold, and the Error each is to throw
Absent(f) ==
    IF f.op = "exportTable"
    THEN ~\E r \in db.relations : r.schema = CurrentSchema(f) /\ r.name = f.name
    ELSE f.op = "exportFunction"
            /\ ~\E g \in db.functions : g.schema = CurrentSchema(f) /\ g.name = f.name

NotFound(f) ==
    (IF f.op = "exportTable" THEN "Table " ELSE "Function ")
        \o CurrentSchema(f) \o "." \o f.name \o " not found"

C21_Step ==
    \A i \in 1..Len(calls') :
        LET f == calls'[i]
        IN  (/\ f.op \in {"exportTable", "exportFunction"}
             /\ Rejection(options) = ""
             /\ Absent(f)
             /\ (i > Len(calls) \/ calls[i].pc # "done"))
                => /\ disk' = disk
                   /\ f.pc = "done" => f.error = NotFound(f)

\* C21: exportTable() for a table that does not exist in the given schema
\* throws 'Table <schema>.<table> not found', and exportFunction() for a
\* function name that does not exist throws 'Function <schema>.<name> not
\* found'; in both cases nothing is written to outputPath.
C21_NotFoundWritesNothing == [][C21_Step]_vars

\* exportTable has thrown for a name that is no table, with the file an
\* earlier call wrote to the same outputPath still as it was
C21_Witness ==
    \E i, j \in 1..Len(calls) :
        /\ i < j
        /\ calls[i].op = "exportFunction" /\ calls[i].pc = "done" /\ calls[i].error = ""
        /\ calls[j].op = "exportTable" /\ calls[j].filePath = calls[i].filePath
        /\ calls[j].error = "Table app_public.create_post not found"
        /\ calls[i].filePath \in DOMAIN disk
        /\ disk[calls[i].filePath] = calls[i].content

\* exportFunction has thrown for a name that is no function
C21_WitnessFunction ==
    \E j \in 1..Len(calls) :
        /\ calls[j].op = "exportFunction"
        /\ calls[j].error = "Function app_public.users not found"

\* the files the disk holds under a directory
FilesUnder(dir) == { q \in DOMAIN disk : q[1] = dir }

\* C22: when clean is true (the default), export() cleans the output
\* directory before writing, so that after the export the output directory
\* holds only files of the current export: a file written by an earlier
\* export for a table or function that is no longer in the database does not
\* remain.
C22_OnlyCurrentFiles ==
    (/\ Sequential
     /\ Len(calls) > 0
     /\ calls[Len(calls)].op = "export"
     /\ calls[Len(calls)].result.some
     /\ options.clean.val)
        => LET r == calls[Len(calls)].result.val
           IN  FilesUnder(r.outputPath)
                   = { r.files[k].filePath : k \in 1..Len(r.files) }

----------------------------------------------------------------------------
(* index.ts: the methods exportTables() and exportFunctions() of an        *)
(* instance: the scope is set, export() is awaited, the scope is put back. *)

ScopedMethods == {"exportTables", "exportFunctions"}

\* this.options.scope = "tables" or "functions"
ScopeSet(method) == Some(ScopeOf(IF method = "exportTables" THEN "tables" ELSE "functions"))

\* exportTables()/exportFunctions() up to the first await of export():
\* originalScope is kept in the frame, the scope is set, then export() runs
\* to its first await (validateConfig, connect when there is no connection,
\* else the scope is read and fs.mkdir awaited)
CallScoped(method) ==
    LET w == [NewFrame(method) EXCEPT
                 !.pc = "try", !.arg = [NoOptions EXCEPT !.scope = options.scope]]
        f == NewFrame("export")
        before == Append(calls, w)
    IN  /\ options' = [options EXCEPT !.scope = ScopeSet(method)]
        /\ IF validateConfig(options) # ""
           THEN /\ calls' = Append(before, Throw(f, validateConfig(options)))
                /\ UNCHANGED <<connection, conns>>
           ELSE IF connection = 0
           THEN /\ conns' = Append(conns, "connecting")
                /\ connection' = Len(conns) + 1
                /\ calls' = Append(before, [f EXCEPT !.pc = "connect",
                                                     !.conn = Len(conns) + 1])
           ELSE /\ calls' = Append(before, [Setup(f) EXCEPT
                                               !.scope = normalizeScope(ScopeSet(method))])
                /\ UNCHANGED <<connection, conns>>
        /\ UNCHANGED <<db, disk>>
        /\ UNCHANGED <<cfgVars, genVars>>

\* the scope put back only when export() returned: try without finally
ScopeAfterReturnOnly(w, m) == IF m.error # "" THEN options.scope ELSE w.arg.scope

\* finally { this.options.scope = originalScope }
ScopeAfter(w, m) == w.arg.scope

\* export() has returned or thrown: the finally block runs and the method
\* returns or throws the same
ScopedFinally(i) ==
    /\ calls[i].op \in ScopedMethods /\ calls[i].pc = "try"
    /\ calls[i + 1].pc = "done"
    /\ options' = [options EXCEPT !.scope = ScopeAfter(calls[i], calls[i + 1])]
    /\ calls' = [calls EXCEPT ![i] = [calls[i] EXCEPT !.pc = "done",
                                                      !.error = calls[i + 1].error,
                                                      !.result = calls[i + 1].result]]
    /\ UNCHANGED <<db, connection, conns, disk>>
    /\ UNCHANGED <<cfgVars, genVars>>

----------------------------------------------------------------------------
(* exportTables() and exportFunctions() called by a caller that awaits each *)
(* call before making the next one; every await of export() may reject.    *)

\* configure({ scope })
SeqConfigureScope ==
    /\ Sequential /\ Len(calls) < MaxSeq
    /\ \E sc \in Scopes :
          LET o == [NoOptions EXCEPT !.scope = Some(sc)]
          IN  /\ options' = mergeConfigs(options, o)
              /\ calls' = Append(calls, [NewFrame("configure") EXCEPT
                                            !.pc = "done", !.arg = o])
    /\ UNCHANGED <<db, connection, conns, disk>>
    /\ UNCHANGED <<cfgVars, genVars>>

\* await tablerizer.exportTables() or await tablerizer.exportFunctions()
SeqScoped ==
    /\ Sequential /\ Len(calls) + 1 < MaxSeq
    /\ \E method \in ScopedMethods : CallScoped(method)

NextScopedSeq ==
    \/ SeqConfigureScope
    \/ SeqScoped
    \/ \E i \in 1..Len(calls) :
          \/ ExportConnected(i)
          \/ ExportMkdirBase(i)
          \/ ExportMkdirSchema(i)
          \/ ExportCountTables(i)
          \/ ExportCountFunctions(i)
          \/ ExportListTables(i)
          \/ ExportTableData(i)
          \/ ExportListFunctions(i)
          \/ ExportWriteFunction(i)
          \/ AwaitRejects(i)
          \/ ScopedFinally(i)

SpecScopedSeq == InitSeq /\ [][NextScopedSeq]_vars

\* the scope configured by the caller: the one of the last configure() that
\* gave one, "all" when none did (the constructor options above give none)
RECURSIVE ScopeInForce(_)
ScopeInForce(n) ==
    IF n = 0 THEN Some(ScopeOf("all"))
    ELSE IF calls[n].op = "configure" /\ calls[n].arg.scope.some
         THEN calls[n].arg.scope
         ELSE ScopeInForce(n - 1)

\* C23: exportTables() and exportFunctions() leave the configured scope
\* unchanged: when a call that overlaps no other call has completed, whether
\* it returned or threw, options.scope is the value it had before the call,
\* which is the scope the caller configured last.
C23_ScopeRestored == Sequential => options.scope = ScopeInForce(Len(calls))

\* C23 witness: after configure({ scope: "functions" }) exportTables() has
\* thrown in the middle of the export, and the scope is "functions" again.
C23_Witness ==
    /\ Sequential /\ Len(calls) = 3
    /\ calls[1].op = "configure" /\ calls[1].arg.scope = Some(ScopeOf("functions"))
    /\ calls[2].op = "exportTables" /\ calls[2].error = "rejected"
    /\ calls[3].scope = <<"tables">>
    /\ options.scope = Some(ScopeOf("functions"))

\* C23 witness: exportFunctions() has returned its result under the default
\* scope, and the scope is "all" again.
C23_WitnessReturned ==
    /\ Sequential /\ Len(calls) = 2
    /\ calls[1].op = "exportFunctions" /\ calls[1].result.some
    /\ options.scope = Some(ScopeOf("all"))

----------------------------------------------------------------------------
(* exportTables() and exportFunctions() called without awaiting: the calls *)
(* overlap, and their asynchronous steps interleave.                       *)

\* the number of calls of exportTables() and exportFunctions()
MaxScoped == 2

\* tablerizer.exportTables() or tablerizer.exportFunctions(), not awaited
ScopedStart ==
    /\ Len(calls) < 2 * MaxScoped
    /\ \E method \in ScopedMethods : CallScoped(method)

NextScoped ==
    \/ ScopedStart
    \/ \E i \in 1..Len(calls) :
          \/ ExportConnected(i)
          \/ ExportMkdirBase(i)
          \/ ExportMkdirSchema(i)
          \/ ExportCountTables(i)
          \/ ExportCountFunctions(i)
          \/ ExportListTables(i)
          \/ ExportTableData(i)
          \/ ExportListFunctions(i)
          \/ ExportWriteFunction(i)
          \/ ScopedFinally(i)

SpecScoped == InitSeq /\ [][NextScoped]_vars

\* the kind of file a method is for
TypeOf(method) == IF method = "exportTables" THEN "table" ELSE "function"

\* the files the export() of method call i has written so far
WrittenBy(i) == { calls[i + 1].files[k] : k \in 1..Len(calls[i + 1].files) }

\* C24: overlapping calls of exportTables() and exportFunctions() on one
\* instance do not interfere: under every interleaving exportTables() writes
\* only table files and exportFunctions() writes only function files.
C24_OnlyOwnFiles ==
    \A i \in 1..Len(calls) :
        calls[i].op \in ScopedMethods
            => \A e \in WrittenBy(i) : e.type = TypeOf(calls[i].op)

----------------------------------------------------------------------------
(* Connections of an instance that nothing refers to any more.             *)

\* connection c can still be closed: this.connection refers to it, or a
\* disconnect() that has read it is closing it
Reachable(c) ==
    \/ connection = c
    \/ \E i \in 1..Len(calls) :
          calls[i].op = "disconnect" /\ calls[i].pc = "disconnect" /\ calls[i].conn = c

\* C25: an instance never leaves a connection it created open and
\* unreachable: every connection opened by connect() or by the implicit
\* connect of export() can still be closed by a disconnect(), also when
\* connect() is called twice without a disconnect and when calls overlap.
C25_NoConnectionLost ==
    \A c \in 1..Len(conns) : conns[c] \in {"connecting", "open"} => Reachable(c)

----------------------------------------------------------------------------
(* generateTableSQL with role_mappings on tables granted to roles whose    *)
(* names are emitted between double quotes.                                *)

\* roles created as "app-user" and "sales team"
RoleAppUser == <<"app", "-", "user">>
RoleSalesTeam == <<"sales", " ", "team">>

\* rows of information_schema.role_table_grants
QuotedGrantPool ==
    { TableGrant(<<"postgres">>, RoleAppUser, "SELECT", FALSE),
      TableGrant(<<"postgres">>, RoleAppUser, "UPDATE", TRUE),
      TableGrant(<<"postgres">>, RoleSalesTeam, "SELECT", FALSE),
      TableGrant(<<"postgres">>, RoleAdmin, "INSERT", FALSE) }

\* role_mappings of the configuration
QuotedRoleMappings ==
    { << [role |-> RoleAppUser, placeholder |-> <<":", "DATABASE_USER">>] >>,
      << [role |-> RoleSalesTeam, placeholder |-> <<":", "DATABASE_SALES">>],
         [role |-> RoleAdmin, placeholder |-> <<":", "DATABASE_ADMIN">>] >>,
      << [role |-> RoleAdmin, placeholder |-> <<":", "DATABASE_ADMIN">>],
         [role |-> RoleAppUser, placeholder |-> <<":", "DATABASE_USER">>],
         [role |-> RoleSalesTeam, placeholder |-> <<":", "DATABASE_SALES">>] >> }

InitRoles ==
    /\ ConfigIdle
    /\ InstanceIdle
    /\ \E g \in SeqsOf(QuotedGrantPool, MaxRows) :
          tableInput = [TableDataOf("users") EXCEPT !.rbac.table_grants = g]
    /\ roleMappings \in QuotedRoleMappings
    /\ sqlContent = <<>>
    /\ psqlVars = <<>>
    /\ script = <<>>
    /\ target = <<>>
    /\ runs = <<>>

\* generateTableSQL(schema, tableData, roleMappings, includeDate)
GenerateMapped ==
    /\ sqlContent = <<>>
    /\ \E includeDate \in BOOLEAN :
          sqlContent' = generateTableSQL(PublicSchema, tableInput, roleMappings, includeDate)
    /\ UNCHANGED <<tableInput, roleMappings, psqlVars, script, target, runs>>
    /\ UNCHANGED <<cfgVars, instVars>>

NextRoles == GenerateMapped

SpecRoles == InitRoles /\ [][NextRoles]_vars

\* the GRANT ... TO and REVOKE ... FROM statements of the generated file
GrantAndRevokeLines ==
    LET lines == StatementLines(sqlContent)
    IN  { lines[i] : i \in { k \in 1..Len(lines) :
                                \/ StartsWith(lines[k], <<"GRANT">>)
                                \/ StartsWith(lines[k], <<"REVOKE">>) } }

\* the mapped roles whose names are emitted between double quotes
QuotedMapped == { k \in 1..Len(roleMappings) : Escape(roleMappings[k].role) # roleMappings[k].role }

\* C26: for a mapped role whose name is emitted double-quoted, the name is
\* replaced together with both quotes: each GRANT ... TO and REVOKE ... FROM
\* statement that holds its placeholder holds no quote character.
C26_NoLeftoverQuote ==
    \A line \in GrantAndRevokeLines :
        \A k \in QuotedMapped :
            Has(line, roleMappings[k].placeholder[2]) => ~Has(line, "\"")

====
